---- MODULE Spec2Model ----
(***************************************************************************)
(* Model of the SMTP delivery reliability layer of email-bulk-sender:      *)
(*   core/email_enhanced.py  SMTPErrorClassifier, ExponentialBackoff,      *)
(*                           SmartRetryHandler, BounceHandler              *)
(*   email_utils.py          SMTPConnectionPool                            *)
(*   通用邮件群发/send_bulk_emails.py  BulkEmailSender                     *)
(*                                                                         *)
(* The specifications share the variables below:                           *)
(*   Spec        the pure decision functions, applied to drawn failures    *)
(*   PoolSpec    one SMTPConnectionPool under get_connection / send_email  *)
(*               / close calls and server-side session loss                *)
(*   BackoffSpec one ExponentialBackoff asked for successive delays        *)
(*   BuilderSpec one EnhancedEmailBuilder building one message             *)
(*   WrapperSpec one call of a function wrapped by retry_on_failure        *)
(*   CertificateSpec the certificate sender's decorated send               *)
(*   CancelSpec  the pool with calls interrupted by KeyboardInterrupt      *)
(*   SenderSpec  BulkEmailSender delivering a batch of recipients          *)
(***************************************************************************)
EXTENDS Integers, Sequences, FiniteSets, TLC

VARIABLES
    \* ---- decision functions (Spec) ----
    exception,          \* the failure handed to the function under test
    attempt,            \* zero-based attempt index handed to should_retry
    max_attempts,       \* SmartRetryHandler.max_attempts
    called,             \* which function has been applied ("none" before)
    classification,     \* result of classify_error (NoClassification before)
    decision,           \* result of should_retry (NoDecision before)
    jitter,             \* ExponentialBackoff.jitter
    delays,             \* results of get_delay(attempt), get_delay(attempt + 1)
    bounce,             \* result of parse_smtp_response (NoBounce before)
    builder_args,       \* arguments EnhancedEmailBuilder was constructed with
    email_builder,      \* the EnhancedEmailBuilder: its attributes
    build_args,         \* arguments of build_message
    msg,                \* the message build_message returned (NoMessage before)
    retry_args,         \* max_retries, delay, backoff of retry_on_failure
    wrapper,            \* the running wrapper: its locals and what it did
    self_max_retries,   \* ExcelCertificateSender.max_retries (--max-retries)
    \* ---- sessions, shared by the pool and the sender ----
    sessions,           \* sessions established so far: id -> [quit, broken]
    \* ---- SMTPConnectionPool (PoolSpec) ----
    server,             \* self.server: a session id or NoSession
    emails_sent_in_current_connection,
    poolCall,           \* observation of the last pool call
    \* ---- BulkEmailSender (SenderSpec) ----
    dry_run,            \* self.dry_run
    enhanced,           \* ENHANCED_FEATURES_AVAILABLE and self.retry_handler
    smtp_connection,    \* self.smtp_connection: a session id or NoSession
    connection_email_count,
    index,              \* recipient the batch loop is at (1-based)
    pc,                 \* delivery state of that recipient
    retry_count,        \* retry_count of the running call
    attempts,           \* per recipient: executions of the send path so far
    outcome,            \* per recipient: "none", "Success" or "Failed"
    lastException,      \* failure of the last failed attempt
    failedOn,           \* session held when that attempt failed
    slept,              \* seconds slept before the next attempt
    send_results,       \* send_results of send_all_emails
    excel_status        \* the spreadsheet's send-status column, per row

----------------------------------------------------------------------------
(* Bounds *)

\* largest number of phrases one failure text holds
MaxPhrases == 2
\* largest max_attempts a retry handler is constructed with
MaxMaxAttempts == 3
\* largest attempt index get_delay is first called with
MaxBackoffAttempt == 6
\* largest number of entries of extra_headers
MaxExtraHeaders == 2
\* largest max_retries a function is decorated with
MaxRetries == 3
\* sessions one pool or sender may establish in a run
MaxSessions == 4
\* recipients loaded from the spreadsheet
NumRecipients == 2

\* Python's None where a string is expected
None == "None"
\* self.server is None / no session
NoSession == 0
\* the exception carries no smtp_code
NoCode == 0
\* no exception was raised
NoFailure == [cls |-> "None", code |-> NoCode, text |-> {}]

----------------------------------------------------------------------------
(* Failures.  A failure is an exception object: its class, the SMTP code   *)
(* it carries (NoCode when its class has none)    and its text.  The    *)
(* text is str(exception).lower(), modelled by the phrases it contains.    *)

\* exception classes the transport raises, with their Python base classes
\* (smtplib.SMTPException derives from OSError)
ExceptionClasses ==
    { "SMTPResponseException", "SMTPAuthenticationError", "SMTPConnectError",
      "SMTPServerDisconnected", "SMTPRecipientsRefused",
      "ConnectionError", "TimeoutError", "OSError", "ValueError" }

Bases(cls) ==
    CASE cls = "SMTPResponseException" ->
            {"SMTPResponseException", "SMTPException", "OSError", "Exception"}
      [] cls = "SMTPAuthenticationError" ->
            {"SMTPAuthenticationError", "SMTPResponseException",
             "SMTPException", "OSError", "Exception"}
      [] cls = "SMTPConnectError" ->
            {"SMTPConnectError", "SMTPResponseException",
             "SMTPException", "OSError", "Exception"}
      [] cls = "SMTPServerDisconnected" ->
            {"SMTPServerDisconnected", "SMTPException", "OSError", "Exception"}
      [] cls = "SMTPRecipientsRefused" ->
            {"SMTPRecipientsRefused", "SMTPException", "OSError", "Exception"}
      [] cls = "ConnectionError" -> {"ConnectionError", "OSError", "Exception"}
      [] cls = "TimeoutError" -> {"TimeoutError", "OSError", "Exception"}
      [] cls = "OSError" -> {"OSError", "Exception"}
      [] cls = "KeyboardInterrupt" -> {"KeyboardInterrupt", "BaseException"}
      [] OTHER -> {cls, "Exception"}

\* isinstance(exception, bases)
isinstance(e, bases) == Bases(e.cls) \cap bases # {}

\* the code tables of SMTPErrorClassifier
PERMANENT_ERRORS_without_554 == {501, 502, 503, 504, 521, 530, 535, 550, 551, 552, 553}
PERMANENT_ERRORS_without_550 == {501, 502, 503, 504, 521, 530, 535, 551, 552, 553, 554}
PERMANENT_ERRORS == {501, 502, 503, 504, 521, 530, 535, 550, 551, 552, 553, 554}
TEMPORARY_ERRORS == {421, 450, 451, 452, 455}
RATE_LIMIT_ERRORS_without_454 == {421, 450, 451, 452}
RATE_LIMIT_ERRORS == {421, 450, 451, 452, 454}

\* codes a response may carry: every code of a table, and codes of none
Codes ==
    { 421, 450, 451, 452, 454, 455,
      500, 501, 502, 503, 504, 521, 530, 534, 535,
      550, 551, 552, 553, 554, 555 }

\* phrases classify_error looks for in the text
Phrases ==
    { "rate limit", "too many", "authentication", "login", "connection",
      "timeout", "rate", "quota", "limit", "mailbox", "recipient", "not found" }

\* the phrases that are substrings of a phrase
SubPhrases(p) ==
    IF p = "rate limit" THEN {"rate limit", "rate", "limit"} ELSE {p}

\* `phrase in text`
Contains(text, phrase) == \E p \in text : phrase \in SubPhrases(p)

Texts == { t \in SUBSET Phrases : Cardinality(t) <= MaxPhrases }

Failures ==
    [ cls : {c \in ExceptionClasses : "SMTPResponseException" \in Bases(c)},
      code : Codes, text : Texts ]
    \cup
    [ cls : {c \in ExceptionClasses : "SMTPResponseException" \notin Bases(c)},
      code : {NoCode}, text : Texts ]

----------------------------------------------------------------------------
(* SMTPErrorClassifier *)

Result(kind, retry, delay) ==
    [error_type |-> kind, should_retry |-> retry, delay |-> delay]

\* the rules on the message text, and the default
classify_text_permanent_first(e) ==
    IF Contains(e.text, "mailbox") \/ Contains(e.text, "recipient")
                \/ Contains(e.text, "not found")
    THEN Result("permanent", FALSE, 0)
    ELSE IF Contains(e.text, "authentication") \/ Contains(e.text, "login")
    THEN Result("authentication", FALSE, 0)
    ELSE IF Contains(e.text, "connection") \/ Contains(e.text, "timeout")
    THEN Result("connection", TRUE, 15)
    ELSE IF Contains(e.text, "rate") \/ Contains(e.text, "quota")
                \/ Contains(e.text, "limit")
    THEN Result("rate_limit", TRUE, 60)
    ELSE Result("unknown", TRUE, 10)

\* the function ends without its last return: Python returns None
classify_text_without_default(e) ==
    IF Contains(e.text, "authentication") \/ Contains(e.text, "login")
    THEN Result("authentication", FALSE, 0)
    ELSE IF Contains(e.text, "connection") \/ Contains(e.text, "timeout")
    THEN Result("connection", TRUE, 15)
    ELSE IF Contains(e.text, "rate") \/ Contains(e.text, "quota")
                \/ Contains(e.text, "limit")
    THEN Result("rate_limit", TRUE, 60)
    ELSE IF Contains(e.text, "mailbox") \/ Contains(e.text, "recipient")
                \/ Contains(e.text, "not found")
    THEN Result("permanent", FALSE, 0)
    ELSE Result(None, FALSE, 0)

classify_text(e) ==
    IF Contains(e.text, "authentication") \/ Contains(e.text, "login")
    THEN Result("authentication", FALSE, 0)
    ELSE IF Contains(e.text, "connection") \/ Contains(e.text, "timeout")
    THEN Result("connection", TRUE, 15)
    ELSE IF Contains(e.text, "rate") \/ Contains(e.text, "quota")
                \/ Contains(e.text, "limit")
    THEN Result("rate_limit", TRUE, 60)
    ELSE IF Contains(e.text, "mailbox") \/ Contains(e.text, "recipient")
                \/ Contains(e.text, "not found")
    THEN Result("permanent", FALSE, 0)
    ELSE Result("unknown", TRUE, 10)

\* the chain of rules below the protocol-code block (type rules, then text)
classify_fallback_text_first(e) ==
    IF classify_text(e).error_type # "unknown"
    THEN classify_text(e)
    ELSE IF isinstance(e, {"SMTPConnectError", "SMTPServerDisconnected",
                           "ConnectionError", "TimeoutError", "OSError"})
    THEN Result("connection", TRUE, 15)
    ELSE IF isinstance(e, {"SMTPAuthenticationError"})
    THEN Result("authentication", FALSE, 0)
    ELSE Result("unknown", TRUE, 10)

\* the type rule for connection failures suggesting 30 seconds
classify_fallback_connection_30(e) ==
    IF isinstance(e, {"SMTPConnectError", "SMTPServerDisconnected",
                      "ConnectionError", "TimeoutError", "OSError"})
    THEN Result("connection", TRUE, 30)
    ELSE IF isinstance(e, {"SMTPAuthenticationError"})
    THEN Result("authentication", FALSE, 0)
    ELSE classify_text(e)

classify_fallback(e) ==
    IF isinstance(e, {"SMTPConnectError", "SMTPServerDisconnected",
                      "ConnectionError", "TimeoutError", "OSError"})
    THEN Result("connection", TRUE, 15)
    ELSE IF isinstance(e, {"SMTPAuthenticationError"})
    THEN Result("authentication", FALSE, 0)
    ELSE classify_text(e)

\* classify_error with the permanent rule tried before the authentication rule
classify_error_permanent_first(e) ==
    IF isinstance(e, {"SMTPResponseException"})
    THEN IF e.code \in PERMANENT_ERRORS
         THEN Result("permanent", FALSE, 0)
         ELSE IF e.code \in {530, 535}
         THEN Result("authentication", FALSE, 0)
         ELSE IF e.code \in RATE_LIMIT_ERRORS
                    \/ Contains(e.text, "rate limit")
                    \/ Contains(e.text, "too many")
         THEN Result("rate_limit", TRUE, 60)
         ELSE IF e.code \in TEMPORARY_ERRORS
         THEN Result("temporary", TRUE, 10)
         ELSE classify_fallback(e)
    ELSE classify_fallback(e)

\* classify_error with the temporary rule tried before the rate-limit rule
classify_error_temporary_first(e) ==
    IF isinstance(e, {"SMTPResponseException"})
    THEN IF e.code \in {530, 535}
         THEN Result("authentication", FALSE, 0)
         ELSE IF e.code \in PERMANENT_ERRORS
         THEN Result("permanent", FALSE, 0)
         ELSE IF e.code \in TEMPORARY_ERRORS
         THEN Result("temporary", TRUE, 10)
         ELSE IF e.code \in RATE_LIMIT_ERRORS
                    \/ Contains(e.text, "rate limit")
                    \/ Contains(e.text, "too many")
         THEN Result("rate_limit", TRUE, 60)
         ELSE classify_fallback(e)
    ELSE classify_fallback(e)

classify_error(e) ==
    IF isinstance(e, {"SMTPResponseException"})
    THEN IF e.code \in {530, 535}
         THEN Result("authentication", FALSE, 0)
         ELSE IF e.code \in PERMANENT_ERRORS
         THEN Result("permanent", FALSE, 0)
         ELSE IF e.code \in RATE_LIMIT_ERRORS
                    \/ Contains(e.text, "rate limit")
                    \/ Contains(e.text, "too many")
         THEN Result("rate_limit", TRUE, 60)
         ELSE IF e.code \in TEMPORARY_ERRORS
         THEN Result("temporary", TRUE, 10)
         ELSE classify_fallback(e)
    ELSE classify_fallback(e)

\* The sentences of get_error_message are Chinese; each is written here as
\* the text holding its transliteration.  None of them holds an ASCII word.
get_error_message(error_type) ==
    CASE error_type = "permanent" -> {"yongjiuxing cuowu (youxiang bu cunzai huo bei jujue)"}
      [] error_type = "temporary" -> {"linshixing cuowu (fuwuqi zanshi bu keyong)"}
      [] error_type = "rate_limit" -> {"sulv xianzhi (fasong guokuai, xuyao jiansu)"}
      [] error_type = "connection" -> {"lianjie cuowu (wangluo wenti huo fuwuqi duankai)"}
      [] error_type = "authentication" -> {"renzheng shibai (yonghuming huo mima cuowu)"}
      [] OTHER -> {"weizhi cuowu"}

----------------------------------------------------------------------------
(* ExponentialBackoff.  Delays are whole seconds; the jitter draw            *)
(* random.uniform(0, 0.25 * delay) is any whole number of seconds in range.  *)

base_delay == 10
max_delay == 300

Min(a, b) == IF a <= b THEN a ELSE b
Max(a, b) == IF a >= b THEN a ELSE b

\* the values get_delay(att) can return
get_delay_uncapped(att, jit) ==
    LET delay == base_delay * (2 ^ att)
    IN  IF jit THEN { delay + j : j \in 0 .. ((delay * 25) \div 100) }
        ELSE { delay }

get_delay_half_jitter(att, jit) ==
    LET delay == Min(base_delay * (2 ^ att), max_delay)
    IN  IF jit THEN { delay + j : j \in 0 .. ((delay * 50) \div 100) }
        ELSE { delay }

get_delay(att, jit) ==
    LET delay == Min(base_delay * (2 ^ att), max_delay)
    IN  IF jit THEN { delay + j : j \in 0 .. ((delay * 25) \div 100) }
        ELSE { delay }

----------------------------------------------------------------------------
(* SmartRetryHandler *)

Decision(retry, delay, reason) ==
    [retry |-> retry, delay |-> delay, reason |-> reason]

MaxAttemptsReached == {"yi da zuida chongshi cishu"}

\* the attempt budget is used up at this attempt index
budget_exhausted_one_late(att, maxAtt) == att >= maxAtt
budget_exhausted(att, maxAtt) == att >= maxAtt - 1

\* the results should_retry(exception, attempt) can return; the handler's
\* backoff is ExponentialBackoff(base_delay) with its default jitter=True
should_retry_ignoring_verdict(e, att, maxAtt) ==
    IF budget_exhausted(att, maxAtt)
    THEN { Decision(FALSE, 0, MaxAttemptsReached) }
    ELSE LET c == classify_error(e)
             error_msg == get_error_message(c.error_type)
         IN  { Decision(TRUE,
                        IF c.error_type = "rate_limit" THEN Max(d, 60) ELSE d,
                        error_msg) :
               d \in IF c.delay > 0 THEN {c.delay}
                     ELSE get_delay(att, TRUE) }

should_retry_backoff_only(e, att, maxAtt) ==
    IF budget_exhausted(att, maxAtt)
    THEN { Decision(FALSE, 0, MaxAttemptsReached) }
    ELSE LET c == classify_error(e)
             error_msg == get_error_message(c.error_type)
         IN  IF ~c.should_retry
             THEN { Decision(FALSE, 0, error_msg) }
             ELSE { Decision(TRUE, d, error_msg) : d \in get_delay(att, TRUE) }

\* should_retry adding the backoff of the attempt to the suggested delay
should_retry_adding_backoff(e, att, maxAtt) ==
    IF budget_exhausted(att, maxAtt)
    THEN { Decision(FALSE, 0, MaxAttemptsReached) }
    ELSE LET c == classify_error(e)
             error_msg == get_error_message(c.error_type)
         IN  IF ~c.should_retry
             THEN { Decision(FALSE, 0, error_msg) }
             ELSE { Decision(TRUE,
                             IF c.error_type = "rate_limit" THEN Max(d, 60) ELSE d,
                             error_msg) :
                    d \in { c.delay + b : b \in get_delay(att, FALSE) } }

should_retry(e, att, maxAtt) ==
    IF budget_exhausted(att, maxAtt)
    THEN { Decision(FALSE, 0, MaxAttemptsReached) }
    ELSE LET c == classify_error(e)
             error_msg == get_error_message(c.error_type)
         IN  IF ~c.should_retry
             THEN { Decision(FALSE, 0, error_msg) }
             ELSE { Decision(TRUE,
                             IF c.error_type = "rate_limit" THEN Max(d, 60) ELSE d,
                             error_msg) :
                    d \in IF c.delay > 0 THEN {c.delay}
                          ELSE get_delay(att, TRUE) }

----------------------------------------------------------------------------
(* BounceHandler *)

hard_bounce_codes == {550, 551, 552, 553, 554}
soft_bounce_codes_with_455 == {421, 450, 451, 452, 455}
soft_bounce_codes == {421, 450, 451, 452}

\* result['reason'] of a hard bounce (Chinese sentences, transliterated)
hard_bounce_reason(code) ==
    CASE code = 550 -> "youxiang bu cunzai huo bei jujue"
      [] code = 551 -> "yonghu bu shi bendi yonghu"
      [] code = 552 -> "youxiang cunchu kongjian yi man"
      [] code = 553 -> "youxiang mingcheng bu yunxu"
      [] code = 554 -> "jiaoyi shibai"
      [] OTHER -> None

\* result['reason'] of a soft bounce; prev is the reason set so far
soft_bounce_reason(code, prev) ==
    CASE code = 421 -> "fuwu bu keyong (linshi)"
      [] code = 450 -> "youxiang zanshi bu keyong"
      [] code = 451 -> "chuli cuowu (linshi)"
      [] code = 452 -> "cunchu kongjian buzu (linshi)"
      [] OTHER -> prev

\* parse_smtp_response returned None
NoBounce ==
    [ present |-> FALSE, code |-> NoCode, is_bounce |-> FALSE,
      bounce_type |-> None, reason |-> None ]

parse_smtp_response(e) ==
    IF ~isinstance(e, {"SMTPResponseException"})
    THEN NoBounce
    ELSE LET r0 == [ present |-> TRUE, code |-> e.code, is_bounce |-> FALSE,
                     bounce_type |-> None, reason |-> None ]
             r1 == IF e.code \in hard_bounce_codes
                   THEN [r0 EXCEPT !.is_bounce = TRUE, !.bounce_type = "hard",
                                   !.reason = hard_bounce_reason(e.code)]
                   ELSE r0
         IN  IF e.code \in soft_bounce_codes
             THEN [r1 EXCEPT !.is_bounce = TRUE, !.bounce_type = "soft",
                             !.reason = soft_bounce_reason(e.code, r1.reason)]
             ELSE r1

----------------------------------------------------------------------------
(* EnhancedEmailBuilder.  A message is its header list, in order, and its   *)
(* body parts, in order.  A header value is the tuple of its pieces.        *)
(* Assigning msg[name] = value on an email.message.Message appends a header *)
(* field; it neither replaces nor removes a field of the same name.         *)

sender_email == "sender@example.com"
recipient_email == "to@example.com"
subject == "subject"
body_plain == "plain body"

\* Python truthiness of an optional string
Truthy(x) == x \notin {None, ""}

BuilderArgs(name, reply, unsub) ==
    [sender_name |-> name, reply_to |-> reply, unsubscribe_email |-> unsub]

BuildArgs(html, extra) == [body_html |-> html, extra_headers |-> extra]

\* no message has been built
NoMessage == [headers |-> <<>>, parts |-> <<>>]

\* EnhancedEmailBuilder.__init__
EnhancedEmailBuilder(args) ==
    [ sender_email |-> sender_email,
      sender_name |-> args.sender_name,
      reply_to |-> IF Truthy(args.reply_to) THEN args.reply_to ELSE sender_email,
      unsubscribe_email |-> IF Truthy(args.unsubscribe_email)
                            THEN args.unsubscribe_email ELSE sender_email ]

\* MIMEMultipart('alternative'): MIMEBase sets Content-Type and MIME-Version
MIMEMultipart ==
    [ headers |-> << <<"Content-Type", <<"multipart/alternative">> >>,
                     <<"MIME-Version", <<"1.0">> >> >>,
      parts |-> <<>> ]

\* msg[name] = value
set_header(m, name, value) ==
    [m EXCEPT !.headers = Append(@, <<name, value>>)]

\* msg.attach(part)
attach(m, part) == [m EXCEPT !.parts = Append(@, part)]

\* for key, value in extra_headers.items(): msg[key] = value
RECURSIVE set_extra_headers(_, _)
set_extra_headers(m, extra) ==
    IF extra = <<>> THEN m
    ELSE set_extra_headers(set_header(m, extra[1][1], extra[1][2]), Tail(extra))

\* build_message with the HTML part attached before the plain part
build_message_html_first(b, args) ==
    LET m1 == set_header(MIMEMultipart, "From",
                         IF Truthy(b.sender_name)
                         THEN <<b.sender_name, b.sender_email>>
                         ELSE <<b.sender_email>>)
        m2 == set_header(m1, "To", <<recipient_email>>)
        m3 == set_header(m2, "Subject", <<subject>>)
        m4 == set_header(m3, "Message-ID", <<"msgid">>)
        m5 == set_header(m4, "Date", <<"date">>)
        m6 == set_header(m5, "MIME-Version", <<"1.0">>)
        m7 == IF Truthy(b.reply_to) /\ b.reply_to # b.sender_email
              THEN set_header(m6, "Reply-To", <<b.reply_to>>) ELSE m6
        m8 == IF Truthy(b.unsubscribe_email)
              THEN set_header(
                     set_header(m7, "List-Unsubscribe",
                                <<"mailto", b.unsubscribe_email,
                                  "subject=unsubscribe">>),
                     "List-Unsubscribe-Post", <<"List-Unsubscribe=One-Click">>)
              ELSE m7
        m9 == set_header(m8, "Precedence", <<"bulk">>)
        m10 == set_header(m9, "X-Mailer", <<"Python Bulk Email Sender v2.0">>)
        m11 == set_extra_headers(m10, args.extra_headers)
        m12 == IF Truthy(args.body_html) THEN attach(m11, "html") ELSE m11
    IN  attach(m12, "plain")

\* build_message(recipient_email, subject, body_plain, body_html, extra_headers)
build_message(b, args) ==
    LET m1 == set_header(MIMEMultipart, "From",
                         IF Truthy(b.sender_name)
                         THEN <<b.sender_name, b.sender_email>>
                         ELSE <<b.sender_email>>)
        m2 == set_header(m1, "To", <<recipient_email>>)
        m3 == set_header(m2, "Subject", <<subject>>)
        m4 == set_header(m3, "Message-ID", <<"msgid">>)
        m5 == set_header(m4, "Date", <<"date">>)
        m6 == set_header(m5, "MIME-Version", <<"1.0">>)
        m7 == IF Truthy(b.reply_to) /\ b.reply_to # b.sender_email
              THEN set_header(m6, "Reply-To", <<b.reply_to>>) ELSE m6
        m8 == IF Truthy(b.unsubscribe_email)
              THEN set_header(
                     set_header(m7, "List-Unsubscribe",
                                <<"mailto", b.unsubscribe_email,
                                  "subject=unsubscribe">>),
                     "List-Unsubscribe-Post", <<"List-Unsubscribe=One-Click">>)
              ELSE m7
        m9 == set_header(m8, "Precedence", <<"bulk">>)
        m10 == set_header(m9, "X-Mailer", <<"Python Bulk Email Sender v2.0">>)
        m11 == set_extra_headers(m10, args.extra_headers)
        m12 == attach(m11, "plain")
    IN  IF Truthy(args.body_html) THEN attach(m12, "html") ELSE m12

\* msg.get_all(name): the values of the fields of that name, in order
get_all(m, name) ==
    LET fields == SelectSeq(m.headers, LAMBDA h : h[1] = name)
    IN  [i \in 1 .. Len(fields) |-> fields[i][2]]

----------------------------------------------------------------------------
(* retry_on_failure.  The wrapper's locals, the outcome of every call of    *)
(* the wrapped function so far and every time.sleep it made.                *)

RetryArgs(max_retries, delay, backoff) ==
    [max_retries |-> max_retries, delay |-> delay, backoff |-> backoff]

\* what one call of the wrapped function does: it returns value, or raises
FuncOutcome(value, raised) == [value |-> value, raised |-> raised]

\* what the wrapped function can do: return True, return False, raise
FuncOutcomes ==
    { FuncOutcome("True", NoFailure), FuncOutcome("False", NoFailure) }
    \cup
    { FuncOutcome(None, f) :
        f \in { [cls |-> "SMTPServerDisconnected", code |-> NoCode,
                 text |-> {"connection"}],
                [cls |-> "ValueError", code |-> NoCode, text |-> {}] } }

\* the wrapper is entered: current_delay = delay, the loop is at attempt 0
WrapperEntered(args) ==
    [ pc |-> "loop", attempt |-> 0, current_delay |-> args.delay,
      history |-> <<>>, sleeps |-> <<>>, result |-> None, raised |-> NoFailure ]

\* one pass of the for loop, with current_delay += backoff
wrapper_pass_adding_backoff(args, w, o) ==
    LET called_w == [w EXCEPT !.history = Append(@, o)]
    IN  IF o.raised = NoFailure
        THEN [called_w EXCEPT !.pc = "returned", !.result = o.value]
        ELSE IF w.attempt = args.max_retries
        THEN [called_w EXCEPT !.pc = "raised", !.raised = o.raised]
        ELSE [called_w EXCEPT !.sleeps = Append(@, w.current_delay),
                              !.current_delay = w.current_delay + args.backoff,
                              !.attempt = w.attempt + 1]

\* one pass of the for loop: func is called and returns (o.raised is
\* NoFailure) or raises; on the last attempt the exception is re-raised,
\* else the wrapper sleeps and the loop goes on
wrapper_pass(args, w, o) ==
    LET called_w == [w EXCEPT !.history = Append(@, o)]
    IN  IF o.raised = NoFailure
        THEN [called_w EXCEPT !.pc = "returned", !.result = o.value]
        ELSE IF w.attempt = args.max_retries
        THEN [called_w EXCEPT !.pc = "raised", !.raised = o.raised]
        ELSE [called_w EXCEPT !.sleeps = Append(@, w.current_delay),
                              !.current_delay = w.current_delay * args.backoff,
                              !.attempt = w.attempt + 1]

----------------------------------------------------------------------------
(* Sessions.  Every session ever established keeps an entry: whether quit  *)
(* has been called on it, whether the server side has dropped it, and how  *)
(* many sendmail calls it has accepted.                                    *)

NewSession == [quit |-> FALSE, broken |-> FALSE, sends |-> 0]

\* server.quit(): marks the session; on a dropped or already quit session
\* smtplib raises SMTPServerDisconnected, which every caller swallows
quit(sess, s) == [sess EXCEPT ![s].quit = TRUE]
quit_raises(sess, s) == sess[s].broken \/ sess[s].quit

\* failures smtplib.SMTP(...), starttls() and login() raise
ConnectFailures ==
    { [cls |-> "SMTPConnectError", code |-> 421, text |-> {}],
      [cls |-> "SMTPAuthenticationError", code |-> 535, text |-> {"authentication"}],
      [cls |-> "TimeoutError", code |-> NoCode, text |-> {"timeout"}] }

\* failures sendmail raises on a session the server still serves
RefusalFailures ==
    { [cls |-> "SMTPRecipientsRefused", code |-> NoCode, text |-> {"mailbox"}],
      [cls |-> "SMTPResponseException", code |-> 550, text |-> {"not found"}],
      [cls |-> "SMTPResponseException", code |-> 451, text |-> {}] }

\* the failure sendmail raises on a session the server has dropped
Disconnected ==
    [cls |-> "SMTPServerDisconnected", code |-> NoCode, text |-> {"connection"}]

----------------------------------------------------------------------------
(* SMTPConnectionPool *)

\* max_emails_per_connection of the pool under test (constructor argument)
max_emails_per_connection == 2

PoolState(srv, sent, sess, raised, ret) ==
    [server |-> srv, sent |-> sent, sessions |-> sess, raised |-> raised, ret |-> ret]

\* the pool rotates at this counter value
rotation_due_one_late(sent) == sent > max_emails_per_connection
rotation_due(sent) == sent >= max_emails_per_connection

\* get_connection() without `self.emails_sent_in_current_connection = 0`
get_connection_keeping_counter(srv, sent, sess) ==
    IF srv = NoSession \/ rotation_due(sent)
    THEN LET closed == IF srv # NoSession THEN quit(sess, srv) ELSE sess
             id == Len(closed) + 1
         IN  { PoolState(id, sent, Append(closed, NewSession), NoFailure, id) :
                    x \in IF id <= MaxSessions THEN {1} ELSE {} }
             \cup
             { PoolState(srv, sent, closed, f, NoSession) : f \in ConnectFailures }
    ELSE { PoolState(srv, sent, sess, NoFailure, srv) }

\* get_connection() resetting the counter before connect() is called
get_connection_resetting_first(srv, sent, sess) ==
    IF srv = NoSession \/ rotation_due(sent)
    THEN LET closed == IF srv # NoSession THEN quit(sess, srv) ELSE sess
             id == Len(closed) + 1
         IN  { PoolState(id, 0, Append(closed, NewSession), NoFailure, id) :
                    x \in IF id <= MaxSessions THEN {1} ELSE {} }
             \cup
             { PoolState(srv, 0, closed, f, NoSession) : f \in ConnectFailures }
    ELSE { PoolState(srv, sent, sess, NoFailure, srv) }

\* get_connection(): the outcomes of one call from pool state (srv, sent, sess)
get_connection(srv, sent, sess) ==
    IF srv = NoSession \/ rotation_due(sent)
    THEN LET closed == IF srv # NoSession THEN quit(sess, srv) ELSE sess
             id == Len(closed) + 1
         IN  { PoolState(id, 0, Append(closed, NewSession), NoFailure, id) :
                    x \in IF id <= MaxSessions THEN {1} ELSE {} }
             \cup
             { PoolState(srv, sent, closed, f, NoSession) : f \in ConnectFailures }
    ELSE { PoolState(srv, sent, sess, NoFailure, srv) }

\* a cancellation: KeyboardInterrupt derives from BaseException, not Exception
KeyboardInterrupt == [cls |-> "KeyboardInterrupt", code |-> NoCode, text |-> {}]

\* what an interrupted server.quit() may leave of the session list
quit_interrupted(sess, srv) == { sess, quit(sess, srv) }

\* get_connection() with a KeyboardInterrupt arriving inside server.quit()
\* ("quit") or inside connect() ("connect"); empty when the call does not
\* get to that point.  The bare `except:` around quit() catches it and the
\* call goes on; `except Exception` in connect() does not.
get_connection_cancelled(srv, sent, sess, at) ==
    IF ~(srv = NoSession \/ rotation_due(sent))
    THEN {}
    ELSE IF at = "quit"
    THEN IF srv = NoSession THEN {}
         ELSE UNION {
                { PoolState(Len(closed) + 1, 0, Append(closed, NewSession),
                            NoFailure, Len(closed) + 1) :
                    x \in IF Len(closed) + 1 <= MaxSessions THEN {1} ELSE {} }
                \cup
                { PoolState(srv, sent, closed, f, NoSession) :
                    f \in ConnectFailures }
              : closed \in quit_interrupted(sess, srv) }
    ELSE IF at = "connect"
    THEN { PoolState(srv, sent,
                     IF srv # NoSession THEN quit(sess, srv) ELSE sess,
                     KeyboardInterrupt, NoSession) }
    ELSE {}

\* what the except block of send_email leaves in self.server
send_failed_server_kept(srv) == srv
send_failed_server(srv) == NoSession

\* send_email(): the outcomes of one call; ret.tx counts sendmail calls
send_email(srv, sent, sess) ==
    UNION { IF g.raised # NoFailure
            THEN { [g EXCEPT !.server = send_failed_server(g.server),
                             !.ret = [tx |-> 0, ok |-> FALSE, on |-> NoSession]] }
            ELSE LET dead == g.sessions[g.server].broken \/ g.sessions[g.server].quit
                     fails == IF dead
                              THEN {Disconnected}
                              ELSE RefusalFailures
                 IN  { [g EXCEPT !.server = send_failed_server(g.server),
                                 !.raised = f,
                                 !.ret = [tx |-> 1, ok |-> FALSE, on |-> g.ret]] :
                            f \in fails }
                     \cup
                     { [g EXCEPT !.sent = g.sent + 1,
                                 !.sessions[g.server].sends = @ + 1,
                                 !.ret = [tx |-> 1, ok |-> TRUE, on |-> g.ret]] :
                            x \in IF dead THEN {} ELSE {1} }
          : g \in get_connection(srv, sent, sess) }

\* send_email() with a KeyboardInterrupt arriving inside get_connection()
\* ("quit", "connect") or inside sendmail() ("sendmail"); `except Exception`
\* does not catch it, so self.server is left as it is
send_email_cancelled(srv, sent, sess, at) ==
    IF at = "sendmail"
    THEN { [g EXCEPT !.raised = KeyboardInterrupt,
                     !.ret = [tx |-> 0, ok |-> FALSE]] :
             g \in { h \in get_connection(srv, sent, sess) :
                        h.raised = NoFailure } }
    ELSE UNION { IF g.raised = KeyboardInterrupt
                 THEN { [g EXCEPT !.ret = [tx |-> 0, ok |-> FALSE]] }
                 ELSE IF g.raised # NoFailure
                 THEN { [g EXCEPT !.server = send_failed_server(g.server),
                                  !.ret = [tx |-> 0, ok |-> FALSE]] }
                 ELSE { [g EXCEPT !.server = send_failed_server(g.server),
                                  !.raised = f,
                                  !.ret = [tx |-> 1, ok |-> FALSE]] :
                            f \in RefusalFailures }
                      \cup
                      { [g EXCEPT !.sent = g.sent + 1,
                                  !.sessions[g.server].sends = @ + 1,
                                  !.ret = [tx |-> 1, ok |-> TRUE]] }
               : g \in get_connection_cancelled(srv, sent, sess, at) }

\* close() with a KeyboardInterrupt arriving inside server.quit(): the bare
\* `except:` catches it, `finally` drops the session, close() returns
close_cancelled(srv, sent, sess) ==
    IF srv = NoSession THEN {}
    ELSE { PoolState(NoSession, sent, closed, NoFailure,
                     [quit_raised |-> TRUE]) :
             closed \in quit_interrupted(sess, srv) }

\* close(): quit the held session, swallowing its failure, and drop it
close_resetting_counter(srv, sent, sess) ==
    IF srv # NoSession
    THEN PoolState(NoSession, 0, quit(sess, srv), NoFailure,
                   [quit_raised |-> quit_raises(sess, srv)])
    ELSE PoolState(srv, sent, sess, NoFailure, [quit_raised |-> FALSE])

close_without_finally(srv, sent, sess) ==
    IF srv # NoSession
    THEN PoolState(IF quit_raises(sess, srv) THEN srv ELSE NoSession,
                   sent, quit(sess, srv), NoFailure,
                   [quit_raised |-> quit_raises(sess, srv)])
    ELSE PoolState(srv, sent, sess, NoFailure, [quit_raised |-> FALSE])

close(srv, sent, sess) ==
    IF srv # NoSession
    THEN PoolState(NoSession, sent, quit(sess, srv), NoFailure,
                   [quit_raised |-> quit_raises(sess, srv)])
    ELSE PoolState(srv, sent, sess, NoFailure, [quit_raised |-> FALSE])

----------------------------------------------------------------------------
(* Spec: the decision functions applied to a drawn failure *)

NoClassification == Result("none", FALSE, 0)
NoDecision == Decision(FALSE, 0, {})
NoPoolCall ==
    [op |-> "none", raised |-> NoFailure, ok |-> FALSE, tx |-> 0,
     ret |-> NoSession, quit_raised |-> FALSE, cancelled |-> "none",
     on |-> NoSession, server0 |-> NoSession, sent0 |-> 0]

builderVars == <<builder_args, email_builder, build_args, msg>>
wrapperVars == <<retry_args, wrapper, self_max_retries>>
decisionVars ==
    <<exception, attempt, max_attempts, called, classification, decision,
      jitter, delays, bounce, builderVars, wrapperVars>>
poolVars == <<server, emails_sent_in_current_connection, poolCall>>
senderVars ==
    <<dry_run, enhanced, smtp_connection, connection_email_count, index, pc,
      retry_count, attempts, outcome, lastException, failedOn, slept,
      send_results, excel_status>>
vars == <<decisionVars, sessions, poolVars, senderVars>>

\* BulkEmailSender.__init__, before send_all_emails runs
SenderConstructed ==
    /\ smtp_connection = NoSession
    /\ connection_email_count = 0
    /\ index = 1
    /\ pc = "Pending"
    /\ retry_count = 0
    /\ attempts = [i \in 1 .. NumRecipients |-> 0]
    /\ outcome = [i \in 1 .. NumRecipients |-> "none"]
    /\ lastException = NoFailure
    /\ failedOn = NoSession
    /\ slept = 0
    /\ send_results = <<>>
    /\ excel_status = [i \in 1 .. NumRecipients |-> 0]

SenderIdle ==
    /\ dry_run = FALSE
    /\ enhanced = TRUE
    /\ SenderConstructed

\* the decorator's defaults; no wrapped call is in progress
WrapperIdle ==
    /\ retry_args = RetryArgs(3, 2, 2)
    /\ wrapper = WrapperEntered(retry_args)
    /\ self_max_retries = 3

\* no builder call is in progress: the builder the sender constructs
BuilderIdle ==
    /\ builder_args = BuilderArgs(None, None, None)
    /\ email_builder = EnhancedEmailBuilder(builder_args)
    /\ build_args = BuildArgs(None, <<>>)
    /\ msg = NoMessage

DecisionIdle ==
    /\ exception = NoFailure
    /\ attempt = 0
    /\ max_attempts = 3
    /\ called = "none"
    /\ classification = NoClassification
    /\ decision = NoDecision
    /\ jitter = TRUE
    /\ delays = <<>>
    /\ bounce = NoBounce
    /\ BuilderIdle
    /\ WrapperIdle

PoolInit ==
    /\ server = NoSession
    /\ emails_sent_in_current_connection = 0
    /\ poolCall = NoPoolCall

Init ==
    /\ exception \in Failures
    /\ attempt \in 0 .. MaxMaxAttempts
    /\ max_attempts \in 1 .. MaxMaxAttempts
    /\ called = "none"
    /\ classification = NoClassification
    /\ decision = NoDecision
    /\ jitter = TRUE
    /\ delays = <<>>
    /\ bounce = NoBounce
    /\ BuilderIdle
    /\ WrapperIdle
    /\ sessions = <<>>
    /\ PoolInit
    /\ SenderIdle

\* classifier.classify_error(exception)
ClassifyError ==
    /\ called = "none"
    /\ called' = "classify_error"
    /\ classification' = classify_error(exception)
    /\ UNCHANGED <<exception, attempt, max_attempts, decision, jitter, delays,
                   bounce, builderVars,
                   wrapperVars, sessions, poolVars, senderVars>>

\* retry_handler.should_retry(exception, attempt), sleeping the delay itself
ShouldRetry_sleeping ==
    /\ called = "none"
    /\ called' = "should_retry"
    /\ decision' \in should_retry(exception, attempt, max_attempts)
    /\ slept' = decision'.delay
    /\ UNCHANGED <<exception, attempt, max_attempts, classification, jitter,
                   delays, bounce, builderVars,
                   wrapperVars, sessions, poolVars, dry_run, enhanced, smtp_connection,
                   connection_email_count, index, pc, retry_count, attempts,
                   outcome, lastException, failedOn, send_results,
                   excel_status>>

\* retry_handler.should_retry(exception, attempt)
ShouldRetry ==
    /\ called = "none"
    /\ called' = "should_retry"
    /\ decision' \in should_retry(exception, attempt, max_attempts)
    /\ UNCHANGED <<exception, attempt, max_attempts, classification, jitter,
                   delays, bounce, builderVars,
                   wrapperVars, sessions, poolVars, senderVars>>

\* BounceHandler.parse_smtp_response(exception)
ParseSmtpResponse ==
    /\ called = "none"
    /\ called' = "parse_smtp_response"
    /\ bounce' = parse_smtp_response(exception)
    /\ UNCHANGED <<exception, attempt, max_attempts, classification, decision,
                   jitter, delays, builderVars,
                   wrapperVars, sessions, poolVars, senderVars>>

Next == ClassifyError \/ ShouldRetry \/ ParseSmtpResponse

Spec == Init /\ [][Next]_vars

----------------------------------------------------------------------------
(* BuilderSpec: one EnhancedEmailBuilder and one call of build_message      *)

\* entries a caller passes in extra_headers
ExtraPairs ==
    { <<"Subject", <<"other subject">> >>,
      <<"Precedence", <<"list">> >>,
      <<"Reply-To", <<"other@example.com">> >>,
      <<"X-Campaign", <<"spring">> >> }

\* extra_headers: a dict, i.e. entries with distinct keys in insertion
\* order (None and the empty dict are not iterated)
ExtraHeaders ==
    { e \in UNION { [1 .. n -> ExtraPairs] : n \in 0 .. MaxExtraHeaders } :
        \A i, j \in 1 .. Len(e) : i # j => e[i][1] # e[j][1] }

BuilderInit ==
    /\ exception = NoFailure
    /\ attempt = 0
    /\ max_attempts = 3
    /\ called = "none"
    /\ classification = NoClassification
    /\ decision = NoDecision
    /\ jitter = TRUE
    /\ delays = <<>>
    /\ bounce = NoBounce
    /\ builder_args \in { BuilderArgs(n, r, u) :
                            n \in {None, "Sender"},
                            r \in {None, sender_email, "reply@example.com"},
                            u \in {None, "", "unsubscribe@example.com"} }
    /\ email_builder = EnhancedEmailBuilder(builder_args)
    /\ build_args \in { BuildArgs(h, x) :
                          h \in {None, "", "<p>html body</p>"},
                          x \in ExtraHeaders }
    /\ msg = NoMessage
    /\ WrapperIdle
    /\ sessions = <<>>
    /\ PoolInit
    /\ SenderIdle

\* email_builder.build_message(...)
BuildMessage ==
    /\ called = "none"
    /\ called' = "build_message"
    /\ msg' = build_message(email_builder, build_args)
    /\ UNCHANGED <<exception, attempt, max_attempts, classification, decision,
                   jitter, delays, bounce, builder_args, email_builder,
                   build_args, wrapperVars, sessions, poolVars, senderVars>>

BuilderNext == BuildMessage

BuilderSpec == BuilderInit /\ [][BuilderNext]_vars

----------------------------------------------------------------------------
(* WrapperSpec: one call of a function decorated with retry_on_failure      *)

WrapperInit ==
    /\ exception = NoFailure
    /\ attempt = 0
    /\ max_attempts = 3
    /\ called = "none"
    /\ classification = NoClassification
    /\ decision = NoDecision
    /\ jitter = TRUE
    /\ delays = <<>>
    /\ bounce = NoBounce
    /\ BuilderIdle
    /\ retry_args \in { RetryArgs(m, d, b) :
                          m \in 0 .. MaxRetries, d \in {1, 2}, b \in {1, 2, 3} }
    /\ wrapper = WrapperEntered(retry_args)
    /\ self_max_retries = 3
    /\ sessions = <<>>
    /\ PoolInit
    /\ SenderIdle

\* the body of `for attempt in range(max_retries + 1)`, once
WrapperPass ==
    /\ wrapper.pc = "loop"
    /\ \E o \in FuncOutcomes : wrapper' = wrapper_pass(retry_args, wrapper, o)
    /\ UNCHANGED <<exception, attempt, max_attempts, called, classification,
                   decision, jitter, delays, bounce, builderVars, retry_args,
                   self_max_retries, sessions, poolVars, senderVars>>

WrapperNext == WrapperPass

WrapperSpec == WrapperInit /\ [][WrapperNext]_vars

----------------------------------------------------------------------------
(* CertificateSpec: ExcelCertificateSender(max_retries=...) sending one     *)
(* certificate through send_certificate_email, which is decorated with      *)
(* @retry_on_failure(max_retries=3, delay=2, backoff=2)                     *)

CertificateInit ==
    /\ exception = NoFailure
    /\ attempt = 0
    /\ max_attempts = 3
    /\ called = "none"
    /\ classification = NoClassification
    /\ decision = NoDecision
    /\ jitter = TRUE
    /\ delays = <<>>
    /\ bounce = NoBounce
    /\ BuilderIdle
    /\ self_max_retries \in 0 .. MaxRetries
    /\ retry_args = RetryArgs(3, 2, 2)
    /\ wrapper = WrapperEntered(retry_args)
    /\ sessions = <<>>
    /\ PoolInit
    /\ SenderIdle

CertificateSpec == CertificateInit /\ [][WrapperNext]_vars

----------------------------------------------------------------------------
(* BackoffSpec: one ExponentialBackoff(base_delay, max_delay, jitter), asked *)
(* for the delay of an attempt and then of the attempt after it              *)

BackoffInit ==
    /\ exception = NoFailure
    /\ attempt \in 0 .. MaxBackoffAttempt
    /\ max_attempts = 3
    /\ called = "none"
    /\ classification = NoClassification
    /\ decision = NoDecision
    /\ jitter \in BOOLEAN
    /\ delays = <<>>
    /\ bounce = NoBounce
    /\ BuilderIdle
    /\ WrapperIdle
    /\ sessions = <<>>
    /\ PoolInit
    /\ SenderIdle

\* backoff.get_delay(attempt), then backoff.get_delay(attempt + 1)
GetDelay ==
    /\ Len(delays) < 2
    /\ called' = "get_delay"
    /\ \E d \in get_delay(attempt + Len(delays), jitter) :
            delays' = Append(delays, d)
    /\ UNCHANGED <<exception, attempt, max_attempts, classification, decision,
                   jitter, bounce, builderVars,
                   wrapperVars, sessions, poolVars, senderVars>>

BackoffNext == GetDelay

BackoffSpec == BackoffInit /\ [][BackoffNext]_vars

----------------------------------------------------------------------------
(* PoolSpec: one SMTPConnectionPool, called by its single owner *)

PoolSpecInit ==
    /\ DecisionIdle
    /\ sessions = <<>>
    /\ PoolInit
    /\ SenderIdle

PoolCallOf(op, o) ==
    [op |-> op, raised |-> o.raised, ok |-> FALSE, tx |-> 0,
     ret |-> NoSession, quit_raised |-> FALSE, cancelled |-> "none",
     on |-> NoSession,
     server0 |-> server, sent0 |-> emails_sent_in_current_connection]

\* pool.get_connection()
GetConnection ==
    \E o \in get_connection(server, emails_sent_in_current_connection, sessions) :
        /\ server' = o.server
        /\ emails_sent_in_current_connection' = o.sent
        /\ sessions' = o.sessions
        /\ poolCall' = [PoolCallOf("get_connection", o) EXCEPT !.ret = o.ret]
        /\ UNCHANGED <<decisionVars, senderVars>>

\* pool.send_email(msg, recipient_email)
SendEmail ==
    \E o \in send_email(server, emails_sent_in_current_connection, sessions) :
        /\ server' = o.server
        /\ emails_sent_in_current_connection' = o.sent
        /\ sessions' = o.sessions
        /\ poolCall' = [PoolCallOf("send_email", o) EXCEPT !.ok = o.ret.ok,
                                                           !.tx = o.ret.tx,
                                                           !.on = o.ret.on]
        /\ UNCHANGED <<decisionVars, senderVars>>

\* pool.close(), also reached through __exit__
Close ==
    LET o == close(server, emails_sent_in_current_connection, sessions)
    IN  /\ server' = o.server
        /\ emails_sent_in_current_connection' = o.sent
        /\ sessions' = o.sessions
        /\ poolCall' = [PoolCallOf("close", o) EXCEPT !.quit_raised = o.ret.quit_raised]
        /\ UNCHANGED <<decisionVars, senderVars>>

\* the mail server drops a session (idle timeout, network loss)
ServerDrops ==
    \E s \in DOMAIN sessions :
        /\ ~sessions[s].broken
        /\ ~sessions[s].quit
        /\ sessions' = [sessions EXCEPT ![s].broken = TRUE]
        /\ UNCHANGED <<decisionVars, poolVars, senderVars>>

PoolNext == GetConnection \/ SendEmail \/ Close \/ ServerDrops

PoolSpec == PoolSpecInit /\ [][PoolNext]_vars

----------------------------------------------------------------------------
(* CancelSpec: the pool of PoolSpec, whose calls may also be interrupted by *)
(* a KeyboardInterrupt (Ctrl-C) while they run                              *)

\* pool.get_connection(), interrupted
GetConnectionCancelled ==
    \E at \in {"quit", "connect"} :
      \E o \in get_connection_cancelled(server, emails_sent_in_current_connection,
                                       sessions, at) :
        /\ server' = o.server
        /\ emails_sent_in_current_connection' = o.sent
        /\ sessions' = o.sessions
        /\ poolCall' = [PoolCallOf("get_connection", o) EXCEPT !.ret = o.ret,
                                                               !.cancelled = at]
        /\ UNCHANGED <<decisionVars, senderVars>>

\* pool.send_email(msg, recipient_email), interrupted
SendEmailCancelled ==
    \E at \in {"quit", "connect", "sendmail"} :
      \E o \in send_email_cancelled(server, emails_sent_in_current_connection,
                                    sessions, at) :
        /\ server' = o.server
        /\ emails_sent_in_current_connection' = o.sent
        /\ sessions' = o.sessions
        /\ poolCall' = [PoolCallOf("send_email", o) EXCEPT !.ok = o.ret.ok,
                                                           !.tx = o.ret.tx,
                                                           !.cancelled = at]
        /\ UNCHANGED <<decisionVars, senderVars>>

\* pool.close(), interrupted
CloseCancelled ==
    \E o \in close_cancelled(server, emails_sent_in_current_connection, sessions) :
        /\ server' = o.server
        /\ emails_sent_in_current_connection' = o.sent
        /\ sessions' = o.sessions
        /\ poolCall' = [PoolCallOf("close", o) EXCEPT
                            !.quit_raised = o.ret.quit_raised,
                            !.cancelled = "quit"]
        /\ UNCHANGED <<decisionVars, senderVars>>

CancelNext ==
    \/ PoolNext
    \/ GetConnectionCancelled
    \/ SendEmailCancelled
    \/ CloseCancelled

CancelSpec == PoolSpecInit /\ [][CancelNext]_vars

----------------------------------------------------------------------------
(* BulkEmailSender *)

max_retry_attempts == 3
retry_delay == 10
\* self.max_emails_per_connection of the sender
sender_max_emails_per_connection == 50

\* raised while the message is built, before a connection is asked for
BuildFailures ==
    { [cls |-> "ValueError", code |-> NoCode, text |-> {}] }

\* raised by smtplib.SMTP(), starttls(), login() or the configuration test
SenderConnectFailures ==
    ConnectFailures
    \cup { [cls |-> "ConnectionError", code |-> NoCode, text |-> {"connection"}],
           [cls |-> "ValueError", code |-> NoCode, text |-> {}] }

\* raised by as_string(), sign_message() or sendmail(): one failure for every
\* way the except block can go
SenderSendFailures ==
    RefusalFailures
    \cup { Disconnected,
           [cls |-> "SMTPResponseException", code |-> 421, text |-> {"rate limit"}],
           [cls |-> "SMTPResponseException", code |-> 455, text |-> {}],
           [cls |-> "SMTPResponseException", code |-> 500, text |-> {"mailbox"}],
           [cls |-> "ValueError", code |-> NoCode, text |-> {}],
           [cls |-> "ValueError", code |-> NoCode, text |-> {"mailbox"}] }

SenderState(conn, count, sess, raised) ==
    [conn |-> conn, count |-> count, sessions |-> sess, raised |-> raised]

\* get_or_create_smtp_connection(): the outcomes of one call
get_or_create_smtp_connection(conn, count, sess) ==
    IF conn = NoSession \/ count >= sender_max_emails_per_connection
    THEN LET closed == IF conn # NoSession THEN quit(sess, conn) ELSE sess
             id == Len(closed) + 1
         IN  { SenderState(id, 0, Append(closed, NewSession), NoFailure) :
                    x \in IF id <= MaxSessions THEN {1} ELSE {} }
             \cup
             { SenderState(NoSession, count, closed, f) :
                    f \in SenderConnectFailures }
    ELSE { SenderState(conn, count, sess, NoFailure) }

\* close_smtp_connection()
close_smtp_connection(st) ==
    IF st.conn # NoSession
    THEN [st EXCEPT !.conn = NoSession, !.count = 0,
                    !.sessions = quit(st.sessions, st.conn)]
    ELSE st

\* the try block of send_email_with_attachments (dry_run off): the outcomes
\* of one execution; raised = NoFailure when the message was sent
send_attempt(conn, count, sess) ==
    { SenderState(conn, count, sess, f) : f \in BuildFailures }
    \cup
    UNION { IF g.raised # NoFailure
            THEN { g }
            ELSE LET dead == g.sessions[g.conn].broken \/ g.sessions[g.conn].quit
                 IN  { [g EXCEPT !.raised = f,
                                 !.sessions[g.conn].broken =
                                    dead \/ f.cls = "SMTPServerDisconnected"] :
                         f \in IF dead
                               THEN {f \in SenderSendFailures :
                                        f.cls = "SMTPServerDisconnected"}
                               ELSE SenderSendFailures }
                     \cup
                     { [g EXCEPT !.count = g.count + 1,
                                 !.sessions[g.conn].sends = @ + 1] :
                         x \in IF dead THEN {} ELSE {1} }
          : g \in get_or_create_smtp_connection(conn, count, sess) }

\* the test that guards close_smtp_connection() in the smart retry branch;
\* error_type is the reason text should_retry returned
names_connection_error(error_type) ==
    Contains(error_type, "connection") \/ Contains(error_type, "authentication")

\* a hard bounce overrides the retry decision
hard_bounce(e) ==
    /\ isinstance(e, {"SMTPResponseException"})
    /\ parse_smtp_response(e).is_bounce
    /\ parse_smtp_response(e).bounce_type = "hard"

Handled(final, st, d) == [final |-> final, st |-> st, delay |-> d]

\* the except block of send_email_with_attachments up to the recursive call:
\* final = TRUE when it returns False, else the state and the delay slept
handle_failure_ignoring_retry_count(e, rc, st, enh) ==
    IF enh
    THEN { IF ~dec.retry \/ hard_bounce(e)
           THEN Handled(TRUE, st, 0)
           ELSE Handled(FALSE,
                        IF names_connection_error(dec.reason)
                        THEN close_smtp_connection(st) ELSE st,
                        dec.delay)
           : dec \in should_retry(e, 0, max_retry_attempts) }
    ELSE LET st1 == IF isinstance(e, {"SMTPException", "ConnectionError",
                                      "TimeoutError"})
                    THEN close_smtp_connection(st) ELSE st
         IN  IF 0 >= max_retry_attempts - 1
             THEN { Handled(TRUE, st1, 0) }
             ELSE { Handled(FALSE, st1, retry_delay) }

\* the except block retrying at once, without time.sleep
handle_failure_without_wait(e, rc, st, enh) ==
    IF enh
    THEN { IF ~dec.retry \/ hard_bounce(e)
           THEN Handled(TRUE, st, 0)
           ELSE Handled(FALSE,
                        IF names_connection_error(dec.reason)
                        THEN close_smtp_connection(st) ELSE st,
                        0)
           : dec \in should_retry(e, rc, max_retry_attempts) }
    ELSE LET st1 == IF isinstance(e, {"SMTPException", "ConnectionError",
                                      "TimeoutError"})
                    THEN close_smtp_connection(st) ELSE st
         IN  IF rc >= max_retry_attempts - 1
             THEN { Handled(TRUE, st1, 0) }
             ELSE { Handled(FALSE, st1, 0) }

handle_failure(e, rc, st, enh) ==
    IF enh
    THEN { IF ~dec.retry \/ hard_bounce(e)
           THEN Handled(TRUE, st, 0)
           ELSE Handled(FALSE,
                        IF names_connection_error(dec.reason)
                        THEN close_smtp_connection(st) ELSE st,
                        dec.delay)
           : dec \in should_retry(e, rc, max_retry_attempts) }
    ELSE LET st1 == IF isinstance(e, {"SMTPException", "ConnectionError",
                                      "TimeoutError"})
                    THEN close_smtp_connection(st) ELSE st
         IN  IF rc >= max_retry_attempts - 1
             THEN { Handled(TRUE, st1, 0) }
             ELSE { Handled(FALSE, st1, retry_delay) }

----------------------------------------------------------------------------
(* SenderSpec: send_all_emails over NumRecipients recipients *)

SenderInit ==
    /\ DecisionIdle
    /\ sessions = <<>>
    /\ PoolInit
    /\ dry_run \in BOOLEAN
    /\ enhanced \in BOOLEAN
    /\ SenderConstructed

\* the batch loop calls send_email_with_attachments(..., retry_count=0)
BeginRecipient ==
    /\ pc = "Pending"
    /\ pc' = "Attempting"
    /\ retry_count' = 0
    /\ UNCHANGED <<decisionVars, sessions, poolVars, dry_run, enhanced,
                   excel_status,
                   smtp_connection, connection_email_count, index, attempts,
                   outcome, lastException, failedOn, slept, send_results>>

\* dry run: the call returns True without building or sending anything
AttemptDryRun ==
    /\ pc = "Attempting"
    /\ dry_run
    /\ pc' = "Success"
    /\ outcome' = [outcome EXCEPT ![index] = "Success"]
    /\ UNCHANGED <<decisionVars, sessions, poolVars, dry_run, enhanced,
                   excel_status,
                   smtp_connection, connection_email_count, index, retry_count,
                   attempts, lastException, failedOn, slept, send_results>>

\* the message is built and sendmail returns: the call returns True
AttemptSucceeds ==
    /\ pc = "Attempting"
    /\ ~dry_run
    /\ \E o \in send_attempt(smtp_connection, connection_email_count, sessions) :
        /\ o.raised = NoFailure
        /\ smtp_connection' = o.conn
        /\ connection_email_count' = o.count
        /\ sessions' = o.sessions
    /\ attempts' = [attempts EXCEPT ![index] = @ + 1]
    /\ pc' = "Success"
    /\ outcome' = [outcome EXCEPT ![index] = "Success"]
    /\ UNCHANGED <<decisionVars, poolVars, dry_run, enhanced,
                   excel_status, index, retry_count,
                   lastException, failedOn, slept, send_results>>

\* the try block raises: the except block returns False or sleeps to retry
AttemptFails ==
    /\ pc = "Attempting"
    /\ ~dry_run
    /\ \E o \in send_attempt(smtp_connection, connection_email_count, sessions) :
        /\ o.raised # NoFailure
        /\ \E h \in handle_failure(o.raised, retry_count, o, enhanced) :
            /\ smtp_connection' = h.st.conn
            /\ connection_email_count' = h.st.count
            /\ sessions' = h.st.sessions
            /\ lastException' = o.raised
            /\ failedOn' = o.conn
            /\ slept' = h.delay
            /\ pc' = IF h.final THEN "Failed" ELSE "Retrying"
            /\ outcome' = IF h.final THEN [outcome EXCEPT ![index] = "Failed"]
                          ELSE outcome
    /\ attempts' = [attempts EXCEPT ![index] = @ + 1]
    /\ UNCHANGED <<decisionVars, poolVars, dry_run, enhanced,
                   excel_status, index, retry_count,
                   send_results>>

\* time.sleep returns and the function calls itself with retry_count + 1
RetryAfterSleep ==
    /\ pc = "Retrying"
    /\ pc' = "Attempting"
    /\ retry_count' = retry_count + 1
    /\ UNCHANGED <<decisionVars, sessions, poolVars, dry_run, enhanced,
                   excel_status,
                   smtp_connection, connection_email_count, index, attempts,
                   outcome, lastException, failedOn, slept, send_results>>

\* the loop records the result and moves to the next recipient
NextRecipient_aborting_on_failure ==
    /\ pc \in {"Success", "Failed"}
    /\ index < NumRecipients
    /\ send_results' = Append(send_results,
            [row_index |-> index, status |-> IF pc = "Success" THEN 1 ELSE 0])
    /\ index' = IF pc = "Failed" THEN index ELSE index + 1
    /\ pc' = IF pc = "Failed" THEN "Done" ELSE "Pending"
    /\ retry_count' = 0
    /\ lastException' = NoFailure
    /\ failedOn' = NoSession
    /\ slept' = 0
    /\ UNCHANGED <<decisionVars, sessions, poolVars, dry_run, enhanced,
                   excel_status,
                   smtp_connection, connection_email_count, attempts, outcome>>

NextRecipient ==
    /\ pc \in {"Success", "Failed"}
    /\ index < NumRecipients
    /\ send_results' = Append(send_results,
            [row_index |-> index, status |-> IF pc = "Success" THEN 1 ELSE 0])
    /\ index' = index + 1
    /\ pc' = "Pending"
    /\ retry_count' = 0
    /\ lastException' = NoFailure
    /\ failedOn' = NoSession
    /\ slept' = 0
    /\ UNCHANGED <<decisionVars, sessions, poolVars, dry_run, enhanced,
                   excel_status,
                   smtp_connection, connection_email_count, attempts, outcome>>

\* df.at[row_index, status column] = status, for every result in order
RECURSIVE write_status(_, _)
write_status(status, results) ==
    IF results = <<>> THEN status
    ELSE write_status([status EXCEPT ![results[1].row_index] = results[1].status],
                      Tail(results))

\* update_excel_status(send_results): the column after the call.  Reading
\* or saving the file may raise; the exception is logged and the file is
\* left as it was.
update_excel_status(status, results) ==
    { write_status(status, results), status }

\* after the last recipient the loop ends and the connection is closed;
\* the status column is updated with the spreadsheet written in dry run too
FinishBatch_updating_in_dry_run ==
    /\ pc \in {"Success", "Failed"}
    /\ index = NumRecipients
    /\ send_results' = Append(send_results,
            [row_index |-> index, status |-> IF pc = "Success" THEN 1 ELSE 0])
    /\ LET st == close_smtp_connection(
                    SenderState(smtp_connection, connection_email_count,
                                sessions, NoFailure))
       IN  /\ smtp_connection' = st.conn
           /\ connection_email_count' = st.count
           /\ sessions' = st.sessions
    /\ excel_status' \in update_excel_status(excel_status, send_results')
    /\ pc' = "Done"
    /\ retry_count' = 0
    /\ lastException' = NoFailure
    /\ failedOn' = NoSession
    /\ slept' = 0
    /\ UNCHANGED <<decisionVars, poolVars, dry_run, enhanced, index, attempts,
                   outcome>>

\* after the last recipient the loop ends, the connection is closed and,
\* unless in dry run, the status column is updated
FinishBatch ==
    /\ pc \in {"Success", "Failed"}
    /\ index = NumRecipients
    /\ send_results' = Append(send_results,
            [row_index |-> index, status |-> IF pc = "Success" THEN 1 ELSE 0])
    /\ LET st == close_smtp_connection(
                    SenderState(smtp_connection, connection_email_count,
                                sessions, NoFailure))
       IN  /\ smtp_connection' = st.conn
           /\ connection_email_count' = st.count
           /\ sessions' = st.sessions
    /\ excel_status' \in IF dry_run THEN { excel_status }
                         ELSE update_excel_status(excel_status, send_results')
    /\ pc' = "Done"
    /\ retry_count' = 0
    /\ lastException' = NoFailure
    /\ failedOn' = NoSession
    /\ slept' = 0
    /\ UNCHANGED <<decisionVars, poolVars, dry_run, enhanced, index, attempts,
                   outcome>>

SenderNext ==
    \/ BeginRecipient
    \/ AttemptDryRun
    \/ AttemptSucceeds
    \/ AttemptFails
    \/ RetryAfterSleep
    \/ NextRecipient
    \/ FinishBatch

SenderSpec == SenderInit /\ [][SenderNext]_vars

\* the worker is sequential: whatever step is next is eventually taken
SenderFairSpec == SenderSpec /\ WF_vars(SenderNext)

----------------------------------------------------------------------------
(* InterruptSpec: the batch of SenderSpec, which a KeyboardInterrupt       *)
(* (Ctrl-C) may end                                                        *)

\* a KeyboardInterrupt arrives while send_all_emails runs: inside the try
\* block of send_email_with_attachments (re-raised by its
\* `except KeyboardInterrupt`), inside a backoff sleep, or in the loop
\* between two recipients.  Neither send_all_emails nor main catches it, so
\* nothing that follows the loop runs.
Interrupted ==
    /\ pc \in {"Pending", "Attempting", "Retrying", "Success", "Failed"}
    /\ pc' = "Interrupted"
    /\ UNCHANGED <<decisionVars, sessions, poolVars, dry_run, enhanced,
                   excel_status,
                   smtp_connection, connection_email_count, index, retry_count,
                   attempts, outcome, lastException, failedOn, slept,
                   send_results>>

InterruptNext == SenderNext \/ Interrupted

InterruptSpec == SenderInit /\ [][InterruptNext]_vars

----------------------------------------------------------------------------
(* Claims about the decision functions, checked under Spec *)

\* C1: should_retry returns retry = False with delay 0 for every failure
\* whenever attempt >= max_attempts - 1, however the failure is classified.
C1_NoRetryOnceBudgetExhausted ==
    (called = "should_retry" /\ attempt >= max_attempts - 1)
        => (decision.retry = FALSE /\ decision.delay = 0)

\* a retryable failure was refused a retry at the last attempt index
C1_Witness ==
    /\ called = "should_retry"
    /\ attempt = max_attempts - 1
    /\ classify_error(exception).should_retry
    /\ decision.retry = FALSE

\* the permanent set as the claim lists it
C9_PermanentCodes == {501, 502, 503, 504, 521, 530, 550, 551, 552, 553, 554}

\* C9: for every protocol response whose code is in the permanent set,
\* classify_error returns should_retry = False with delay 0 whatever the text;
\* code 550 yields kind 'permanent'.
C9_PermanentCodesNotRetryable ==
    ( /\ called = "classify_error"
      /\ isinstance(exception, {"SMTPResponseException"})
      /\ exception.code \in C9_PermanentCodes )
        => /\ classification.should_retry = FALSE
           /\ classification.delay = 0
           /\ exception.code = 550 => classification.error_type = "permanent"

\* code 550 classified although its text holds a rate-limit phrase
C9_Witness ==
    /\ called = "classify_error"
    /\ isinstance(exception, {"SMTPResponseException"})
    /\ exception.code = 550
    /\ Contains(exception.text, "rate limit")
    /\ classification = Result("permanent", FALSE, 0)

\* C10: for every protocol response with code 530 or 535, classify_error
\* returns ('authentication', False, 0) whatever the text, although both codes
\* are members of PERMANENT_ERRORS.
C10_AuthenticationCodesFirst ==
    /\ {530, 535} \subseteq PERMANENT_ERRORS
    /\ ( /\ called = "classify_error"
         /\ isinstance(exception, {"SMTPResponseException"})
         /\ exception.code \in {530, 535} )
           => classification = Result("authentication", FALSE, 0)

\* code 535 classified with a text that names a mailbox
C10_Witness ==
    /\ called = "classify_error"
    /\ exception.cls = "SMTPResponseException"
    /\ exception.code = 535
    /\ Contains(exception.text, "mailbox")
    /\ classification.error_type = "authentication"

----------------------------------------------------------------------------
(* Claims about SMTPConnectionPool, checked under PoolSpec *)

\* sessions established, not dropped by the server and never quit
OpenSessions(sess) ==
    { s \in DOMAIN sess : ~sess[s].quit /\ ~sess[s].broken }

\* C4: when send_email fails (obtaining the session or transmitting), the
\* pool has cleared its handle, has not incremented the sent counter (it is
\* as before the call, or 0 when the call established a session), raises the
\* failure to the caller and has transmitted at most once in that call.
C4_FailedSendInvalidates ==
    (poolCall.op = "send_email" /\ ~poolCall.ok)
        => /\ server = NoSession
           /\ emails_sent_in_current_connection \in {poolCall.sent0, 0}
           /\ poolCall.raised # NoFailure
           /\ poolCall.tx <= 1

\* a transmission failed on a held session that had already sent mail
C4_Witness ==
    /\ poolCall.op = "send_email"
    /\ poolCall.raised \in RefusalFailures
    /\ poolCall.tx = 1
    /\ poolCall.server0 # NoSession
    /\ poolCall.sent0 > 0
    /\ server = NoSession

\* C5: a get_connection that follows a get_connection which returned, with
\* the counter below the threshold, returns the same session; a get_connection
\* that returns from a held session with max_emails_per_connection sends has
\* quit that session and returns a newly established one with counter 0.
C5_SameSessionUntilThreshold ==
    /\ [][ ( /\ poolCall.op = "get_connection"
             /\ poolCall.raised = NoFailure
             /\ GetConnection
             /\ poolCall'.raised = NoFailure )
           => /\ poolCall'.ret = poolCall.ret
              /\ server' = server
              /\ emails_sent_in_current_connection' = emails_sent_in_current_connection
              /\ Len(sessions') = Len(sessions) ]_vars
    /\ []( ( /\ poolCall.op = "get_connection"
             /\ poolCall.raised = NoFailure
             /\ poolCall.server0 # NoSession
             /\ poolCall.sent0 >= max_emails_per_connection )
           => /\ poolCall.ret # poolCall.server0
              /\ poolCall.ret = Len(sessions)
              /\ server = poolCall.ret
              /\ sessions[poolCall.server0].quit
              /\ emails_sent_in_current_connection = 0 )

\* get_connection rotated a session that had reached the threshold
C5_Witness ==
    /\ poolCall.op = "get_connection"
    /\ poolCall.raised = NoFailure
    /\ poolCall.server0 # NoSession
    /\ poolCall.sent0 = max_emails_per_connection
    /\ server = poolCall.ret
    /\ server # poolCall.server0

\* C6: a pool call changes emails_sent_in_current_connection only so: a call
\* that establishes a session sets it to 0, a successful send adds 1 (while a
\* session is held), and nothing else changes it.
C6_CounterDiscipline ==
    [][ LET established == Len(sessions') > Len(sessions)
            sent_ok == SendEmail /\ poolCall'.ok
            inc == IF sent_ok THEN 1 ELSE 0
        IN  /\ established => emails_sent_in_current_connection' = inc
            /\ ~established =>
                emails_sent_in_current_connection' =
                    emails_sent_in_current_connection + inc
            /\ sent_ok => server' # NoSession ]_vars

\* close() was called on a pool whose counter was above 0
C6_Witness ==
    /\ poolCall.op = "close"
    /\ poolCall.server0 # NoSession
    /\ poolCall.sent0 > 0
    /\ emails_sent_in_current_connection = poolCall.sent0

\* C7: every established session the pool no longer holds has been quit, so
\* at most one session is established, served and not quit at any time.
C7_AtMostOneOpenSession ==
    Cardinality(OpenSessions(sessions)) <= 1

\* C8: close() leaves the pool without a session and raises nothing, whether
\* or not a session was held and whether or not quit raised; a second close()
\* changes nothing; a get_connection that returns after close() has
\* established a fresh session with counter 0.
C8_CloseIdempotent ==
    /\ []( poolCall.op = "close"
            => /\ server = NoSession
               /\ poolCall.raised = NoFailure
               /\ (poolCall.server0 # NoSession => sessions[poolCall.server0].quit) )
    /\ [][ (poolCall.op = "close" /\ Close)
            => UNCHANGED <<server, emails_sent_in_current_connection, sessions>> ]_vars
    /\ [][ (poolCall.op = "close" /\ GetConnection /\ poolCall'.raised = NoFailure)
            => /\ Len(sessions') = Len(sessions) + 1
               /\ server' = Len(sessions')
               /\ poolCall'.ret = server'
               /\ sessions'[server'] = NewSession
               /\ emails_sent_in_current_connection' = 0 ]_vars

\* close() dropped a session whose quit raised
C8_Witness ==
    /\ poolCall.op = "close"
    /\ poolCall.quit_raised
    /\ poolCall.server0 # NoSession
    /\ server = NoSession

----------------------------------------------------------------------------
(* Claims about BulkEmailSender, checked under SenderSpec / SenderFairSpec *)

\* C2: for every recipient the send path runs at most max_retry_attempts
\* times; Failed is reached only by a non-retryable classification, a hard
\* bounce or an exhausted attempt budget; after Success or Failed the
\* recipient gets no further attempt; every attempt leads to Success or Failed.
C2_DeliveryTerminates ==
    /\ [](\A i \in 1 .. NumRecipients : attempts[i] <= max_retry_attempts)
    /\ []( pc = "Failed"
            => \/ ~classify_error(lastException).should_retry
               \/ hard_bounce(lastException)
               \/ retry_count >= max_retry_attempts - 1 )
    /\ [][ \A i \in 1 .. NumRecipients :
            outcome[i] # "none"
                => attempts'[i] = attempts[i] /\ outcome'[i] = outcome[i] ]_vars
    /\ (pc = "Attempting" ~> pc \in {"Success", "Failed"})

\* a recipient failed by using up the budget on retryable failures
C2_Witness ==
    /\ pc = "Failed"
    /\ attempts[index] = max_retry_attempts
    /\ classify_error(lastException).should_retry
    /\ ~hard_bounce(lastException)

\* C3: in the smart retry path, when an attempt failed with a failure of
\* class 'connection' or 'authentication' and the message is retried, the
\* session held at the failure has been quit and the sender holds no session
\* while it waits for the retry.
C3_RetryOnFreshSession ==
    ( /\ enhanced
      /\ pc = "Retrying"
      /\ classify_error(lastException).error_type \in {"connection", "authentication"} )
        => /\ smtp_connection = NoSession
           /\ failedOn # NoSession => sessions[failedOn].quit

----------------------------------------------------------------------------
(* Claims about SMTPErrorClassifier (Spec), continued *)

\* C11: every failure of class smtplib.SMTPAuthenticationError, whatever
\* response code it carries, is classified 'authentication', not retryable
\* (and so never 'connection' nor any retryable kind).
C11_AuthenticationErrorIsAuthentication ==
    ( /\ called = "classify_error"
      /\ exception.cls = "SMTPAuthenticationError" )
        => classification = Result("authentication", FALSE, 0)

\* the code of a response is in none of the classifier's tables
InNoTable(code) ==
    /\ code \notin {530, 535}
    /\ code \notin PERMANENT_ERRORS
    /\ code \notin RATE_LIMIT_ERRORS
    /\ code \notin TEMPORARY_ERRORS

\* the text holds one of the phrases of the rate-limit rule of the code block
RateLimitPhrase(text) == Contains(text, "rate limit") \/ Contains(text, "too many")

\* C12: the 'connection' rule applies only to failures without a protocol
\* code: a protocol response whose code is in no table and whose text has no
\* rate-limit phrase is classified by the message-text fallback, never by
\* the connection rule (so code 500 'mailbox not found' is 'permanent').
C12_UnlistedCodeGoesToTextFallback ==
    ( /\ called = "classify_error"
      /\ exception.cls = "SMTPResponseException"
      /\ InNoTable(exception.code)
      /\ ~RateLimitPhrase(exception.text) )
        => /\ classification = classify_text(exception)
           /\ ( /\ exception.code = 500
                /\ exception.text = {"mailbox", "not found"} )
                  => classification = Result("permanent", FALSE, 0)

\* C13 (as stated): a protocol response whose code is not 530/535 and not
\* in the permanent set is 'rate_limit', retryable, delay 60 whenever its
\* code is in {421,450,451,452,454} or its text contains a rate/quota
\* phrase (the word 'rate' or the word 'quota').
C13_RateOrQuotaWordIsRateLimit ==
    ( /\ called = "classify_error"
      /\ isinstance(exception, {"SMTPResponseException"})
      /\ exception.code \notin {530, 535}
      /\ exception.code \notin PERMANENT_ERRORS
      /\ \/ exception.code \in {421, 450, 451, 452, 454}
         \/ Contains(exception.text, "rate")
         \/ Contains(exception.text, "quota") )
        => classification = Result("rate_limit", TRUE, 60)

\* C13 (amended): a protocol response whose code is not 530/535 and not in
\* the permanent set is 'rate_limit', retryable, delay 60 whenever its code
\* is in {421,450,451,452,454} or its text contains 'rate limit' or
\* 'too many'; code 421 with 'rate limit exceeded' is 'rate_limit',
\* retryable, delay >= 60.
C13_RateLimitCodeOrPhrase ==
    /\ ( /\ called = "classify_error"
         /\ isinstance(exception, {"SMTPResponseException"})
         /\ exception.code \notin {530, 535}
         /\ exception.code \notin PERMANENT_ERRORS
         /\ \/ exception.code \in {421, 450, 451, 452, 454}
            \/ Contains(exception.text, "rate limit")
            \/ Contains(exception.text, "too many") )
           => classification = Result("rate_limit", TRUE, 60)
    /\ ( /\ called = "classify_error"
         /\ exception = [cls |-> "SMTPResponseException", code |-> 421,
                         text |-> {"rate limit"}] )
           => /\ classification.error_type = "rate_limit"
              /\ classification.should_retry
              /\ classification.delay >= 60

\* a response with a code of no table, made 'rate_limit' by its text alone
C13_Witness ==
    /\ called = "classify_error"
    /\ exception.cls = "SMTPResponseException"
    /\ exception.code = 555
    /\ exception.text = {"too many"}
    /\ classification = Result("rate_limit", TRUE, 60)

\* C14: the codes of both the rate-limit and the temporary set (421, 450,
\* 451, 452) are always 'rate_limit' with delay 60, whatever the text;
\* 'temporary' (retryable, delay 10) is returned exactly for a protocol
\* response with code 455 and no rate-limit phrase in its text.
C14_TemporaryOnlyFor455 ==
    /\ RATE_LIMIT_ERRORS \cap TEMPORARY_ERRORS = {421, 450, 451, 452}
    /\ TEMPORARY_ERRORS \ RATE_LIMIT_ERRORS = {455}
    /\ ( /\ called = "classify_error"
         /\ isinstance(exception, {"SMTPResponseException"})
         /\ exception.code \in {421, 450, 451, 452} )
           => classification = Result("rate_limit", TRUE, 60)
    /\ called = "classify_error"
           => ( classification.error_type = "temporary"
                  <=> /\ isinstance(exception, {"SMTPResponseException"})
                      /\ exception.code = 455
                      /\ ~RateLimitPhrase(exception.text) )
    /\ classification.error_type = "temporary"
           => classification = Result("temporary", TRUE, 10)

\* code 455 without a rate-limit phrase was classified 'temporary'
C14_Witness ==
    /\ called = "classify_error"
    /\ exception.code = 455
    /\ exception.text = {"quota"}
    /\ classification = Result("temporary", TRUE, 10)

\* C15: a transport-level failure without a protocol code (connection
\* refused, server disconnected, timeout, generic I/O error) is classified
\* 'connection', retryable, delay 15, whatever its text says.
C15_TransportFailureIsConnection ==
    ( /\ called = "classify_error"
      /\ exception.cls \in {"ConnectionError", "SMTPServerDisconnected",
                            "TimeoutError", "OSError"}
      /\ exception.code = NoCode )
        => classification = Result("connection", TRUE, 15)

\* a refused connection whose text names authentication and a mailbox
C15_Witness ==
    /\ called = "classify_error"
    /\ exception = [cls |-> "ConnectionError", code |-> NoCode,
                    text |-> {"authentication", "mailbox"}]
    /\ classification = Result("connection", TRUE, 15)

\* C16: for a failure matched by no code rule and no type rule, the text
\* fallback is applied in a fixed order, first match wins:
\* authentication/login -> authentication (no retry, 0); connection/timeout
\* -> connection (retry, 15); rate/quota/limit -> rate_limit (retry, 60);
\* mailbox/recipient/not found -> permanent (no retry, 0); no match ->
\* unknown (retry, 10).
C16_TextFallbackOrder ==
    ( /\ called = "classify_error"
      /\ ~isinstance(exception, {"SMTPResponseException", "OSError",
                                 "ConnectionError", "TimeoutError"}) )
        => LET has(words) == \E w \in words : Contains(exception.text, w)
               auth == has({"authentication", "login"})
               conn == has({"connection", "timeout"})
               rate == has({"rate", "quota", "limit"})
               perm == has({"mailbox", "recipient", "not found"})
           IN  /\ auth => classification = Result("authentication", FALSE, 0)
               /\ (~auth /\ conn)
                    => classification = Result("connection", TRUE, 15)
               /\ (~auth /\ ~conn /\ rate)
                    => classification = Result("rate_limit", TRUE, 60)
               /\ (~auth /\ ~conn /\ ~rate /\ perm)
                    => classification = Result("permanent", FALSE, 0)
               /\ (~auth /\ ~conn /\ ~rate /\ ~perm)
                    => classification = Result("unknown", TRUE, 10)

\* a generic error whose text matches the first and the last text rule
C16_Witness ==
    /\ called = "classify_error"
    /\ exception = [cls |-> "ValueError", code |-> NoCode,
                    text |-> {"login", "mailbox"}]
    /\ classification = Result("authentication", FALSE, 0)

\* the kinds classify_error names
ErrorKinds ==
    {"permanent", "temporary", "rate_limit", "connection", "authentication",
     "unknown"}

\* C17: classify_error is total: for every failure it returns one triple
\* whose kind is one of the six kinds; get_error_message gives a fixed
\* sentence for each kind and the 'unknown error' sentence for any other.
C17_ClassifyErrorTotal ==
    /\ called = "classify_error"
          => /\ classification = classify_error(exception)
             /\ classification \in [error_type : ErrorKinds,
                                    should_retry : BOOLEAN,
                                    delay : {0, 10, 15, 60}]
    /\ \A k \in ErrorKinds : get_error_message(k) # {}
    /\ \A k, l \in ErrorKinds \ {"unknown"} :
          k # l => get_error_message(k) # get_error_message(l)
    /\ \A k \in {"unknown", "none", "bounce", None} :
          get_error_message(k) = {"weizhi cuowu"}

\* a generic error with an empty text fell through every rule
C17_Witness ==
    /\ called = "classify_error"
    /\ exception = [cls |-> "ValueError", code |-> NoCode, text |-> {}]
    /\ classification = Result("unknown", TRUE, 10)

----------------------------------------------------------------------------
(* Claims about ExponentialBackoff (BackoffSpec) *)

\* base_delay * 2^att, before the cap
Uncapped(att) == base_delay * (2 ^ att)

\* the attempt index the i-th recorded delay was asked for
AttemptOf(i) == attempt + i - 1

\* C18: without jitter get_delay(attempt) = min(base_delay * 2^attempt,
\* max_delay): it is non-decreasing in attempt, never exceeds max_delay, and
\* with base_delay = 10 gives 10, 20, 40 for attempts 0, 1, 2.
C18_DelayWithoutJitter ==
    ~jitter =>
        /\ \A i \in 1 .. Len(delays) :
              /\ delays[i] = IF Uncapped(AttemptOf(i)) <= max_delay
                             THEN Uncapped(AttemptOf(i)) ELSE max_delay
              /\ delays[i] <= max_delay
        /\ Len(delays) = 2 => delays[1] <= delays[2]
        /\ (base_delay = 10 /\ attempt = 0 /\ Len(delays) = 2)
              => delays = <<10, 20>>
        /\ (base_delay = 10 /\ attempt = 1 /\ Len(delays) = 2)
              => delays = <<20, 40>>

\* the cap takes effect between attempt 4 and attempt 5
C18_Witness ==
    /\ ~jitter
    /\ attempt = 4
    /\ delays = <<160, 300>>

\* C19 (as stated): with jitter, get_delay(attempt) lies in
\* [base_delay * 2^attempt, 1.25 * min(base_delay * 2^attempt, max_delay)]
\* and is at most 1.25 * max_delay, for every attempt.
C19_JitterIntervalFromUncapped ==
    jitter =>
        \A i \in 1 .. Len(delays) :
            /\ delays[i] >= Uncapped(AttemptOf(i))
            /\ 4 * delays[i] <= 5 * Min(Uncapped(AttemptOf(i)), max_delay)
            /\ 4 * delays[i] <= 5 * max_delay

\* C19 (amended): with jitter, get_delay(attempt) lies in [d, 1.25 * d]
\* where d = min(base_delay * 2^attempt, max_delay), and is at most
\* 1.25 * max_delay, for every attempt.
C19_JitterIntervalFromCapped ==
    jitter =>
        \A i \in 1 .. Len(delays) :
            /\ delays[i] >= Min(Uncapped(AttemptOf(i)), max_delay)
            /\ 4 * delays[i] <= 5 * Min(Uncapped(AttemptOf(i)), max_delay)
            /\ 4 * delays[i] <= 5 * max_delay

\* a jittered delay of an attempt whose uncapped delay (320) exceeds
\* max_delay, below the uncapped delay
C19_Witness ==
    /\ jitter
    /\ attempt = 5
    /\ Len(delays) >= 1
    /\ delays[1] = 310

----------------------------------------------------------------------------
(* Claims about SmartRetryHandler (Spec), continued *)

\* C20: for attempt < max_attempts - 1 and a retryable classification,
\* should_retry returns retry = True with the classifier's suggested delay
\* when that is > 0 and get_delay(attempt) otherwise; for kind rate_limit
\* the returned delay is at least 60.
C20_RetryWithSuggestedDelay ==
    ( /\ called = "should_retry"
      /\ attempt < max_attempts - 1
      /\ classify_error(exception).should_retry )
        => LET c == classify_error(exception)
           IN  /\ decision.retry
               /\ c.delay > 0 => decision.delay = c.delay
               /\ c.delay <= 0
                    => \E d \in get_delay(attempt, TRUE) :
                          decision.delay = IF c.error_type = "rate_limit"
                                           THEN Max(d, 60) ELSE d
               /\ c.error_type = "rate_limit" => decision.delay >= 60

\* a rate-limited second attempt of three is retried after 60 seconds
C20_Witness ==
    /\ called = "should_retry"
    /\ attempt = 1
    /\ max_attempts = 3
    /\ classify_error(exception).error_type = "rate_limit"
    /\ decision.retry
    /\ decision.delay = 60

\* C21: for attempt < max_attempts - 1 and a failure the classifier marks
\* not retryable (kinds permanent and authentication), should_retry returns
\* retry = False, delay 0 and the classifier's message for that kind.
C21_NoRetryForNonRetryable ==
    ( /\ called = "should_retry"
      /\ attempt < max_attempts - 1
      /\ ~classify_error(exception).should_retry )
        => /\ classify_error(exception).error_type
                \in {"permanent", "authentication"}
           /\ decision =
                Decision(FALSE, 0,
                         get_error_message(classify_error(exception).error_type))
           /\ decision.reason # MaxAttemptsReached

\* a rejected mailbox (550) on the first of three attempts is not retried
C21_Witness ==
    /\ called = "should_retry"
    /\ attempt = 0
    /\ max_attempts = 3
    /\ exception.code = 550
    /\ decision = Decision(FALSE, 0, get_error_message("permanent"))

----------------------------------------------------------------------------
(* Claims about BounceHandler (Spec) *)

\* C22: parse_smtp_response returns none for every failure that is not a
\* protocol response; for a protocol response it returns bounce_type 'hard'
\* and a fixed reason exactly for codes {550,551,552,553,554}, 'soft' and a
\* fixed reason exactly for codes {421,450,451,452}, and is_bounce = False
\* with no bounce type and no reason for every other code.
C22_BounceTable ==
    called = "parse_smtp_response" =>
        /\ bounce.present <=> isinstance(exception, {"SMTPResponseException"})
        /\ ~bounce.present => bounce = NoBounce
        /\ bounce.present =>
            /\ bounce.code = exception.code
            /\ bounce.bounce_type = "hard"
                  <=> exception.code \in {550, 551, 552, 553, 554}
            /\ bounce.bounce_type = "soft"
                  <=> exception.code \in {421, 450, 451, 452}
            /\ bounce.is_bounce <=> bounce.bounce_type \in {"hard", "soft"}
            /\ bounce.is_bounce
                  => /\ bounce.reason # None
                     /\ bounce.reason
                          = parse_smtp_response(
                              [cls |-> "SMTPResponseException",
                               code |-> exception.code, text |-> {}]).reason
            /\ ~bounce.is_bounce
                  => bounce.bounce_type = None /\ bounce.reason = None
            /\ exception.code = 550
                  => bounce.reason = "youxiang bu cunzai huo bei jujue"
            /\ exception.code = 452
                  => bounce.reason = "cunchu kongjian buzu (linshi)"

\* a response with code 455 is parsed and is no bounce
C22_Witness ==
    /\ called = "parse_smtp_response"
    /\ exception.code = 455
    /\ bounce.present
    /\ ~bounce.is_bounce
    /\ bounce.reason = None

----------------------------------------------------------------------------
(* Claims about the delivery loop (SenderSpec), continued *)

\* the failure is a protocol response with a hard-bounce code
IsHardBounce(e) ==
    /\ isinstance(e, {"SMTPResponseException"})
    /\ e.code \in {550, 551, 552, 553, 554}

\* hard bounces of every response class, with at most one phrase in the text
HardBounces ==
    [ cls : {"SMTPResponseException", "SMTPAuthenticationError",
             "SMTPConnectError"},
      code : {550, 551, 552, 553, 554},
      text : {{}} \cup {{p} : p \in Phrases} ]

\* C23: in the smart retry path a send attempt that fails with a hard bounce
\* (codes 550-554) is never followed by another attempt for that message:
\* the failure is final at once, and the classifier on its own already
\* marks every hard-bounce code non-retryable (the two tables agree).
C23_HardBounceNeverRetried ==
    /\ [] ( /\ hard_bounce_codes = {550, 551, 552, 553, 554}
            /\ \A f \in HardBounces :
                  IsHardBounce(f)
                     => /\ hard_bounce(f)
                        /\ ~classify_error(f).should_retry
                        /\ \A a \in 0 .. max_retry_attempts :
                              \A d \in should_retry(f, a, max_retry_attempts) :
                                  ~d.retry )
    /\ [] ( ( /\ enhanced
              /\ pc \in {"Failed", "Retrying"}
              /\ IsHardBounce(lastException) )
                => pc = "Failed" /\ outcome[index] = "Failed" )
    /\ [][ ( /\ enhanced
             /\ pc \in {"Failed", "Retrying"}
             /\ IsHardBounce(lastException) )
               => attempts'[index] = attempts[index] ]_vars

\* the first attempt for a recipient bounced hard and the message failed
C23_Witness ==
    /\ enhanced
    /\ pc = "Failed"
    /\ IsHardBounce(lastException)
    /\ attempts[index] = 1

----------------------------------------------------------------------------
(* Claims about EnhancedEmailBuilder (BuilderSpec) *)

\* C24: build_message always produces exactly one plain-text part, as the
\* first body part; when HTML is supplied exactly one HTML part follows it,
\* and when no HTML is supplied the plain part is the only part.
C24_PlainPartFirst ==
    called = "build_message" =>
        /\ Len(msg.parts) >= 1
        /\ msg.parts[1] = "plain"
        /\ Cardinality({i \in 1 .. Len(msg.parts) : msg.parts[i] = "plain"}) = 1
        /\ Truthy(build_args.body_html) => msg.parts = <<"plain", "html">>
        /\ ~Truthy(build_args.body_html) => msg.parts = <<"plain">>

\* a message built with an HTML body
C24_Witness ==
    /\ called = "build_message"
    /\ build_args.body_html = "<p>html body</p>"
    /\ msg.parts = <<"plain", "html">>

\* C25: the envelope carries a List-Unsubscribe header (and the one-click
\* List-Unsubscribe-Post header) if and only if an unsubscribe address was
\* configured on the builder; a builder constructed without one produces
\* envelopes without these headers.
C25_UnsubscribeHeaderIffConfigured ==
    called = "build_message" =>
        /\ get_all(msg, "List-Unsubscribe") # <<>>
              <=> Truthy(builder_args.unsubscribe_email)
        /\ get_all(msg, "List-Unsubscribe-Post") # <<>>
              <=> Truthy(builder_args.unsubscribe_email)

\* C26: extra headers are applied after all default headers and overwrite
\* them: for every entry of extra_headers the envelope holds exactly one
\* header of that name, with the entry's value.
C26_ExtraHeadersOverwrite ==
    called = "build_message" =>
        \A i \in 1 .. Len(build_args.extra_headers) :
            get_all(msg, build_args.extra_headers[i][1])
                = <<build_args.extra_headers[i][2]>>

----------------------------------------------------------------------------
(* Claims about the batch loop (SenderFairSpec) *)

\* C27: the batch loop is strictly sequential and failure-isolated: the
\* first attempt for recipient i+1 starts only after recipient i reached
\* Success or Failed; a Failed outcome makes the loop proceed to the next
\* recipient without aborting the batch; every loaded recipient gets exactly
\* one final outcome.
C27_SequentialAndIsolated ==
    /\ [] ( \A j \in 1 .. NumRecipients :
              (attempts[j] > 0 \/ outcome[j] # "none" \/ index >= j)
                 => \A i \in 1 .. j - 1 : outcome[i] \in {"Success", "Failed"} )
    /\ [][ (pc = "Failed" /\ index < NumRecipients)
              => /\ pc' = "Pending"
                 /\ index' = index + 1
                 /\ outcome' = outcome ]_vars
    /\ [][ \A i \in 1 .. NumRecipients :
              outcome[i] # "none" => outcome'[i] = outcome[i] ]_vars
    /\ [] ( pc = "Done"
              => /\ Len(send_results) = NumRecipients
                 /\ \A i \in 1 .. NumRecipients :
                       /\ send_results[i].row_index = i
                       /\ send_results[i].status
                            = IF outcome[i] = "Success" THEN 1 ELSE 0 )
    /\ <>( /\ pc = "Done"
           /\ \A i \in 1 .. NumRecipients : outcome[i] \in {"Success", "Failed"} )

\* the first recipient failed and the second was attempted and delivered
C27_Witness ==
    /\ pc = "Done"
    /\ outcome[1] = "Failed"
    /\ attempts[2] >= 1
    /\ outcome[2] = "Success"

\* C28: when a send fails with a failure classified 'authentication', the
\* batch driver treats it as fatal for the whole run: the loop does not go
\* on to a later recipient, so no send attempt is made for any of them.
C28_AuthenticationFailureIsFatal ==
    [][ ( /\ pc = "Failed"
          /\ classify_error(lastException).error_type = "authentication" )
            => /\ index' = index
               /\ pc' \notin {"Pending", "Attempting"}
               /\ attempts' = attempts ]_vars

----------------------------------------------------------------------------
(* Claims about cancellation (CancelSpec) *)

\* C29: a cancellation (KeyboardInterrupt) that arrives while a pool call
\* runs - also while a session is being closed in get_connection/close - is
\* never swallowed: the call raises it to the caller, and nothing further
\* is done after it (no session is returned, no message is transmitted).
C29_CancellationPropagates ==
    poolCall.cancelled # "none"
        => /\ poolCall.raised = KeyboardInterrupt
           /\ poolCall.ret = NoSession
           /\ poolCall.tx = 0
           /\ ~poolCall.ok

----------------------------------------------------------------------------
(* Claims about retry_on_failure (WrapperSpec) *)

\* the calls of the wrapped function that raised
RaisedCalls == { i \in 1 .. Len(wrapper.history) :
                    wrapper.history[i].raised # NoFailure }

\* C30: a function wrapped by retry_on_failure(max_retries, delay, backoff)
\* is called at most max_retries + 1 times; the wrapper returns the result
\* of the first call that does not raise, without further calls, also when
\* that result is False; it sleeps delay * backoff^k before retry k + 1;
\* when call max_retries + 1 also raises it re-raises that last exception
\* without sleeping again.
C30_RetryOnFailure ==
    LET calls == Len(wrapper.history)
    IN  /\ calls <= retry_args.max_retries + 1
        /\ \A i \in 1 .. calls - 1 : i \in RaisedCalls
        /\ wrapper.pc = "loop" <=> RaisedCalls = 1 .. calls
                                      /\ calls <= retry_args.max_retries
        /\ wrapper.pc = "returned"
              <=> calls >= 1 /\ calls \notin RaisedCalls
        /\ wrapper.pc = "returned"
              => wrapper.result = wrapper.history[calls].value
        /\ wrapper.pc = "raised"
              <=> RaisedCalls = 1 .. calls
                    /\ calls = retry_args.max_retries + 1
        /\ wrapper.pc = "raised"
              => wrapper.raised = wrapper.history[calls].raised
        /\ Len(wrapper.sleeps)
              = IF wrapper.pc = "loop" THEN calls ELSE calls - 1
        /\ \A k \in 1 .. Len(wrapper.sleeps) :
              wrapper.sleeps[k]
                 = retry_args.delay * (retry_args.backoff ^ (k - 1))

\* retry_on_failure(3, 2, 2): three calls raised, the fourth returned False
C30_Witness ==
    /\ retry_args = RetryArgs(3, 2, 2)
    /\ wrapper.pc = "returned"
    /\ wrapper.result = "False"
    /\ Len(wrapper.history) = 4
    /\ wrapper.sleeps = <<2, 4, 8>>

----------------------------------------------------------------------------
(* Claims about the certificate sender (CertificateSpec) *)

\* C31: in the certificate sender the number of retries per email is the
\* configured maximum (the max_retries constructor argument): a send that
\* fails on every attempt is attempted exactly max_retries + 1 times, for
\* every configured value of max_retries.
C31_ConfiguredRetriesAreUsed ==
    wrapper.pc = "raised" => Len(wrapper.history) = self_max_retries + 1

----------------------------------------------------------------------------
(* Claims about the batch run and the spreadsheet (SenderSpec) *)

\* C32: in dry-run mode BulkEmailSender never establishes an SMTP session
\* and never transmits a message, reports success for every recipient, and
\* leaves the spreadsheet's send-status column unchanged.
C32_DryRunTouchesNothing ==
    dry_run =>
        /\ sessions = <<>>
        /\ smtp_connection = NoSession
        /\ connection_email_count = 0
        /\ \A i \in 1 .. NumRecipients :
              /\ attempts[i] = 0
              /\ outcome[i] \in {"none", "Success"}
              /\ excel_status[i] = 0
        /\ \A k \in 1 .. Len(send_results) : send_results[k].status = 1
        /\ pc = "Done"
              => /\ Len(send_results) = NumRecipients
                 /\ \A i \in 1 .. NumRecipients : outcome[i] = "Success"

\* a dry run that has gone through every recipient
C32_Witness ==
    /\ dry_run
    /\ pc = "Done"
    /\ Len(send_results) = NumRecipients
    /\ \A i \in 1 .. NumRecipients : outcome[i] = "Success"

----------------------------------------------------------------------------
(* Claims about SmartRetryHandler (Spec), frame and determinism *)

\* C33: should_retry only decides: it performs no sleep and no transport
\* operation and leaves the handler's configuration (max_attempts, backoff
\* policy), the connection/session state and the sent counters unchanged,
\* for every failure and attempt index.
C33_ShouldRetryOnlyDecides ==
    [][ called' = "should_retry"
          => /\ decision' \in should_retry(exception, attempt, max_attempts)
             /\ UNCHANGED <<exception, attempt, max_attempts, jitter>>
             /\ UNCHANGED <<sessions, poolVars>>
             /\ UNCHANGED <<smtp_connection, connection_email_count, slept,
                            attempts, send_results, excel_status>> ]_vars

\* a retry was decided for a transport failure; nothing slept or connected
C33_Witness ==
    /\ called = "should_retry"
    /\ decision.retry
    /\ decision.delay = 15
    /\ slept = 0
    /\ sessions = <<>>
    /\ server = NoSession

----------------------------------------------------------------------------
(* Claims about the backoff wait of the delivery loop (SenderSpec) *)

----------------------------------------------------------------------------
(* Claims about rotation of the pool's session (PoolSpec) *)

\* C35: whatever send_email, get_connection and close calls were made and
\* however they ended - failed connection attempts during a rotation
\* included - emails_sent_in_current_connection never exceeds
\* max_emails_per_connection, and no session has carried more than
\* max_emails_per_connection successful sends.
C35_CounterWithinThreshold ==
    /\ max_emails_per_connection >= 1
    /\ emails_sent_in_current_connection <= max_emails_per_connection
    /\ \A s \in DOMAIN sessions :
            sessions[s].sends <= max_emails_per_connection
    /\ (poolCall.op = "send_email" /\ poolCall.ok)
            => sessions[server].sends = emails_sent_in_current_connection

\* a rotation failed to connect with the counter at the threshold, after an
\* earlier session had also been used up
C35_Witness ==
    /\ poolCall.op = "get_connection"
    /\ poolCall.raised \in ConnectFailures
    /\ server # NoSession
    /\ server = poolCall.server0
    /\ server > 1
    /\ sessions[server].quit
    /\ sessions[server].sends = max_emails_per_connection
    /\ sessions[1].sends = max_emails_per_connection
    /\ emails_sent_in_current_connection = max_emails_per_connection

\* C36: get_connection never returns a session the pool has called quit on,
\* and send_email never transmits on one; after a rotation whose replacement
\* could not be established, the next get_connection or send_email that gets
\* a session gets a newly established one, never the closed one.
C36_NeverReturnsQuitSession ==
    /\ [] ( (poolCall.op = "get_connection" /\ poolCall.raised = NoFailure)
              => /\ poolCall.ret # NoSession
                 /\ poolCall.ret = server
                 /\ ~sessions[poolCall.ret].quit )
    /\ [] ( (poolCall.op = "send_email" /\ poolCall.on # NoSession)
              => ~sessions[poolCall.on].quit )
    /\ [] ( (poolCall.op = "send_email" /\ poolCall.tx = 1)
              => poolCall.on # NoSession )
    /\ [][ ( /\ server # NoSession
             /\ sessions[server].quit
             /\ (GetConnection \/ SendEmail)
             /\ poolCall'.raised \notin ConnectFailures )
           => /\ Len(sessions') = Len(sessions) + 1
              /\ (poolCall'.op = "get_connection"
                    => poolCall'.ret = Len(sessions'))
              /\ (poolCall'.op = "send_email"
                    => poolCall'.on = Len(sessions')) ]_vars

\* after a rotation that could not connect, send_email transmitted on a
\* newly established session
C36_Witness ==
    /\ poolCall.op = "send_email"
    /\ poolCall.ok
    /\ poolCall.server0 # NoSession
    /\ poolCall.sent0 = max_emails_per_connection
    /\ poolCall.on = Len(sessions)
    /\ poolCall.on = poolCall.server0 + 1
    /\ server = poolCall.on
    /\ emails_sent_in_current_connection = 1

----------------------------------------------------------------------------
(* Claims about the delays the classifier and the retry handler suggest    *)
(* (Spec)                                                                  *)

\* the delay classify_error suggests for a kind
FixedDelay(kind) ==
    CASE kind = "permanent" -> 0
      [] kind = "authentication" -> 0
      [] kind = "temporary" -> 10
      [] kind = "unknown" -> 10
      [] kind = "connection" -> 15
      [] kind = "rate_limit" -> 60
      [] OTHER -> -1

\* C37: the three outputs of classify_error agree for every failure:
\* should_retry is True exactly when the suggested delay is above 0 and
\* exactly when the kind is neither permanent nor authentication; the delay
\* is one of 0, 10, 15, 60 and is fixed per kind (permanent 0,
\* authentication 0, temporary 10, unknown 10, connection 15, rate_limit 60).
C37_ClassificationConsistent ==
    called = "classify_error"
        => /\ classification.should_retry <=> classification.delay > 0
           /\ classification.should_retry
                <=> classification.error_type \notin {"permanent", "authentication"}
           /\ classification.delay \in {0, 10, 15, 60}
           /\ classification.delay = FixedDelay(classification.error_type)

\* a transport failure without a code was classified: connection, 15 seconds
C37_Witness ==
    /\ called = "classify_error"
    /\ exception.cls = "TimeoutError"
    /\ exception.text = {"mailbox"}
    /\ classification = Result("connection", TRUE, 15)

----------------------------------------------------------------------------
(* Claims about the spreadsheet when a batch ends early (InterruptSpec) *)

\* C39: every recipient whose send returned success during send_all_emails
\* has status 1 in the spreadsheet by the time the run has ended, also when
\* the run ended early through an interrupt or an exception that left the
\* loop (sends that really transmit: dry_run off).
C39_SuccessesRecordedWhenRunEnds ==
    (pc \in {"Done", "Interrupted"} /\ ~dry_run)
        => \A i \in 1 .. NumRecipients :
                outcome[i] = "Success" => excel_status[i] = 1

====
